---- MODULE Spec2Model ----
(***************************************************************************)
(* Databricks Apps lifecycle: deploy_app and its transition poll,          *)
(* create_or_update_app / delete_app of the MCP tool layer, and the /logz  *)
(* websocket log fetch, modelled from                                      *)
(*   src/databricks-tools-core/databricks_tools_core/apps/apps.py          *)
(*   src/databricks-mcp-server/databricks_mcp_server/tools/apps.py         *)
(***************************************************************************)
EXTENDS Integers, Sequences, FiniteSets, TLC

(***************************************************************************)
(* Bounds of the model                                                     *)
(***************************************************************************)
\* deploy_app calls made one after the other in one behaviour
MaxCalls == 2
\* create_or_update_app / delete_app calls made one after the other
MaxAppCalls == 2

(***************************************************************************)
(* Program constants                                                       *)
(***************************************************************************)
DeployAttempts == 5      \* for _ in range(5)
PollWindow == 60         \* deadline = time.time() + 60
PollInterval == 2        \* time.sleep(2) between poll reads

(***************************************************************************)
(* Paths: strings as sequences of one-character strings                    *)
(***************************************************************************)
WorkspacePrefix == <<"/","W","o","r","k","s","p","a","c","e","/">>
WorkspaceRoot == <<"/","W","o","r","k","s","p","a","c","e">>
UsersPrefix == <<"/","U","s","e","r","s","/">>
SharedPrefix == <<"/","S","h","a","r","e","d","/">>
ReposPrefix == <<"/","R","e","p","o","s","/">>

\* the inputs the calls are tried on
PathNone == << >>                                   \* None or ""
PathBlank == <<" ">>
PathWorkspace == WorkspacePrefix \o <<"a">>
PathUsers == UsersPrefix \o <<"a">>
PathShared == SharedPrefix \o <<"a">>
PathRepos == ReposPrefix \o <<"a">>
PathPadded == <<" ">> \o UsersPrefix \o <<"a"," ">>
PathRelative == <<"a","/","b">>
PathOther == <<"/","t","m","p","/","a">>

SourcePaths ==
    { PathNone, PathBlank, PathWorkspace, PathUsers, PathShared, PathRepos,
      PathPadded, PathRelative, PathOther }

\* the paths deploy_app is called with directly
DeployPaths == { PathWorkspace, PathUsers }

IsSpace(c) == c \in {" ", "\t", "\n"}

StartsWith(s, pre) ==
    /\ Len(s) >= Len(pre)
    /\ SubSeq(s, 1, Len(pre)) = pre

RECURSIVE LStrip(_)
LStrip(s) ==
    IF s # << >> /\ IsSpace(Head(s)) THEN LStrip(Tail(s)) ELSE s

RECURSIVE RStrip(_)
RStrip(s) ==
    IF s # << >> /\ IsSpace(s[Len(s)]) THEN RStrip(SubSeq(s, 1, Len(s) - 1)) ELSE s

\* str.strip()
Strip(s) == RStrip(LStrip(s))

\* mutant: only /Users/ is taken for a shortcut
NormalizePath_UsersOnly(source_code_path) ==
    LET path == Strip(source_code_path)
    IN  IF StartsWith(path, UsersPrefix) THEN WorkspaceRoot \o path ELSE path

\* _normalize_workspace_source_path
NormalizePath(source_code_path) ==
    LET path == Strip(source_code_path)
    IN  IF path = << >> THEN path
        ELSE IF StartsWith(path, WorkspacePrefix) THEN path
        ELSE IF \/ StartsWith(path, UsersPrefix)
                \/ StartsWith(path, SharedPrefix)
                \/ StartsWith(path, ReposPrefix)
             THEN WorkspaceRoot \o path
        ELSE path

(***************************************************************************)
(* Values                                                                  *)
(***************************************************************************)
NoId == 0                 \* None / empty deployment id
ReadFailed == -1          \* in the history: a get-app read that raised

\* exceptions: the kind, and for a failed deploy attempt which attempt raised it
Err(kind, n) == [kind |-> kind, attempt |-> n]
NoError == Err("none", 0)

\* _deployment_to_dict: a deployment as the dict of its id, the one field
\* the code decides on
Dep(id) == [deployment_id |-> id]
NoDep == Dep(NoId)

VARIABLES
    \* ---- control plane (external collaborator) ----
    appExists,      \* the app named by the calls exists
    active,         \* the app's active deployment, NoDep when none
    rolling,        \* the deployment being rolled out, NoDep when none
    minted,         \* deployment ids handed out so far (ids are 1..minted)
    \* ---- manifest of tracked resources ----
    tracked,        \* the app name is tracked
    \* ---- history of the behaviour ----
    calls,          \* top-level calls started so far
    createReqs,     \* w.apps.create calls issued so far
    createOks,      \* w.apps.create calls that succeeded so far
    deleteCalls,    \* delete_app calls so far
    absentAtStart,  \* the app did not exist in the initial state
    trueReturns,    \* create_or_update_app calls that returned created=True
    \* ---- deploy_app: one invocation ----
    dpc,            \* position: idle, capture, submit, check, poll, returned, raised
    dpath,          \* normalized_source_code_path
    prev,           \* previous_deployment_id (NoId for None)
    attempts,       \* w.apps.deploy calls made by the submit loop
    lastError,      \* last_error (NoError for None)
    response,       \* dict of the deploy response (result, line 155)
    now,            \* time.time(), counted from the clock read of line 164
    deadline,       \* deadline (line 164)
    dresult,        \* what deploy_app returned
    dvia,           \* how it returned: immediate, transition, timeout
    derror,         \* what deploy_app raised
    \* ---- history of one deploy_app invocation ----
    activeAtCall,   \* id of the active deployment when the call started
    pollReads,      \* get-app reads made by the transition poll
    quietRead,      \* some poll read returned and showed no transition
    failedRead,     \* some poll read raised
    lastShown,      \* active id the latest poll read showed, or ReadFailed
    okAt,           \* the attempt whose deploy call succeeded, 0 when none
    captureRaised,  \* the get-app read of lines 123-126 raised
    \* ---- create_or_update_app: one invocation ----
    cpc,            \* position: idle, create, deploy, returned, raised
    craw,           \* the source_code_path argument as passed
    cpath,          \* source_code_path after line 101 (<< >> for None)
    existing,       \* _find_app_by_name found the app
    created,        \* result["created"]
    cdeployment,    \* result["deployment"], NoDep when the key is absent
    cerror,         \* what create_or_update_app raised
    \* ---- history of one create_or_update_app invocation ----
    existedAtCall,  \* the app existed when the call started
    callCreates,    \* w.apps.create calls issued by this call
    cpAtCall,       \* <<appExists, minted>> when the call started
    oksAtCall,      \* createOks when the call started
    lookupRaised,   \* the get of _find_app_by_name raised
    deployFailedBefore, \* the create_or_update_app call before this one
                    \* raised the error of its deploy request
    \* ---- delete_app (tool): the last invocation ----
    delOutcome,     \* none, deleted, raised
    trackedAtDelete \* tracked when the last delete_app call started

cpVars == <<appExists, active, rolling, minted>>
histVars == <<calls, createReqs, createOks, deleteCalls, absentAtStart>>
dVars == <<dpc, dpath, prev, attempts, lastError, response, now, deadline,
           dresult, dvia, derror, activeAtCall, pollReads, quietRead, failedRead,
           lastShown, okAt, captureRaised>>
cVars == <<cpc, craw, cpath, existing, created, cdeployment, cerror,
           existedAtCall, callCreates, cpAtCall, oksAtCall, lookupRaised,
           deployFailedBefore>>
delVars == <<delOutcome, trackedAtDelete>>

VARIABLES
    \* ---- _get_app_logs_via_logz_ws: one invocation ----
    lpc,            \* position: idle, connect, tls, request, response,
                    \* subscribe, header, extlen, mask, payload, frame, done
    sock,           \* the connection's descriptor: none, open, closed
    term,           \* deployment_id or "", the search term, as bytes
    resp,           \* response (line 340), as the lines read so far
    surplus,        \* bytes read into response behind the header block
    opcode,         \* _ws_recv_frame: opcode
    masked,         \* _ws_recv_frame: masked
    length,         \* _ws_recv_frame: length
    mask,           \* _ws_recv_frame: mask (<< >> for None and for b"")
    payload,        \* _ws_recv_frame: payload
    lines,          \* lines (line 354)
    clock,          \* time.time() in tenths of a second, from line 355
    ldeadline,      \* deadline (line 355)
    loutcome,       \* none, returned, raised
    lerror,         \* the exception raised
    lcarried,       \* what the exception carries of the response
    lresult,        \* the text returned
    \* ---- the app's /logz endpoint and the wire ----
    serverMode,     \* script: a few frames of any kind; burst, steady:
                    \* text frames for as long as the client reads, back
                    \* to back or one each MaxDelay; whole: what is on
                    \* the stream, every read served in full
    framesLeft,     \* frames a script server may still send
    httpWire,       \* lines of the HTTP response not read yet
    wire,           \* frame bytes the server has ready to send
    peerClosed,     \* the server's end of the stream is closed
    sent,           \* websocket frames the client has sent
    \* ---- history of the invocation ----
    sentPlain,      \* for each frame sent: its first byte, payload and key
    eofAt,          \* the read of a frame that first returned zero bytes:
                    \* none, header, extlen, mask, payload
    timeoutAt,      \* the read of a frame that timed out, likewise
    probe           \* the frame put on the stream for the codec alone:
                    \* what it was built from, the headers read since

\* _normalize_workspace_source_path on its own
VARIABLES
    npc,               \* given: not called; once: called; twice: called
                       \* again on what it returned
    givenPath,         \* source_code_path, the argument
    normalizedPath,    \* the path returned
    renormalizedPath   \* the path returned for normalizedPath

pathVars == <<npc, givenPath, normalizedPath, renormalizedPath>>

\* list_apps on its own
VARIABLES
    listPc,            \* given: not called; listed: returned
    listing,           \* what w.apps.list() yields, in its order
    nameContains,      \* name_contains (<< >> for None and for "")
    limit,             \* limit
    results            \* the list returned

listVars == <<listPc, listing, nameContains, limit, results>>

\* calls that run at the same time on one app name
VARIABLES
    caller             \* for each concurrent call: its position and locals

concVars == <<caller>>

\* get_app_logs: one invocation
VARIABLES
    gpc,               \* position: idle, session, returned, raised
    givenId,           \* deployment_id, the argument (<< >> for None and "")
    shown,             \* what the get of line 239 showed: unread, raised,
                       \* inactive, noid, active
    gresult            \* the kind of dict returned and its deployment_id

getVars == <<gpc, givenId, shown, gresult>>

frameVars == <<opcode, masked, length, mask, payload>>
outVars == <<loutcome, lerror, lcarried, lresult>>
sendVars == <<sent, sentPlain>>
readVars == <<eofAt, timeoutAt, probe>>
srvVars == <<serverMode, framesLeft, httpWire>>
logVars == <<lpc, sock, term, resp, surplus, frameVars, lines, clock, ldeadline,
             outVars, srvVars, wire, peerClosed, sendVars, readVars>>
vars == <<cpVars, tracked, histVars, trueReturns, dVars, cVars, delVars, logVars, pathVars, listVars, concVars, getVars>>

DeployDone == dpc \in {"returned", "raised"}
DeployIdle == dpc \in {"idle", "returned", "raised"}
CouDone == cpc \in {"returned", "raised"}
CouIdle == cpc \in {"idle", "returned", "raised"}

(***************************************************************************)
(* Control plane                                                           *)
(***************************************************************************)
\* the deployment submitted last becomes the active one (propagation lag:
\* this happens some time after the deploy call returned)
Rollout ==
    /\ rolling # NoDep
    /\ active' = rolling
    /\ rolling' = NoDep
    /\ UNCHANGED <<appExists, minted, tracked, histVars, trueReturns, dVars, cVars,
                   delVars, logVars, pathVars, listVars, concVars, getVars>>

\* what the deploy call can answer for the deployment it created with id
\* newId: the new deployment, the one still active, or a dict with no id
DeployResponses(newId) ==
    { Dep(newId), Dep(NoId) }
    \cup (IF active # NoDep THEN { active } ELSE {})

(***************************************************************************)
(* deploy_app                                                              *)
(***************************************************************************)
\* the locals of an invocation that has not run
DeployFresh(p) ==
    /\ dpath' = p
    /\ prev' = NoId
    /\ attempts' = 0
    /\ lastError' = NoError
    /\ response' = NoDep
    /\ now' = 0
    /\ deadline' = 0
    /\ dresult' = NoDep
    /\ dvia' = "none"
    /\ derror' = NoError
    /\ activeAtCall' = active.deployment_id
    /\ pollReads' = 0
    /\ quietRead' = FALSE
    /\ failedRead' = FALSE
    /\ lastShown' = NoId
    /\ okAt' = 0
    /\ captureRaised' = FALSE

\* lines 117-119: entry; normalizes the path
DeployCall ==
    /\ DeployIdle /\ CouIdle
    /\ calls < MaxCalls
    /\ calls' = calls + 1
    /\ dpc' = "capture"
    /\ \E p \in DeployPaths : DeployFresh(NormalizePath(p))
    /\ UNCHANGED <<cpVars, tracked, createReqs, createOks, deleteCalls,
                   absentAtStart, trueReturns, cVars, delVars, logVars, pathVars, listVars, concVars, getVars>>

\* mutant: the id is captured although the read raised
CapturedPrevious_IgnoresFailure(readOk, current) == current.deployment_id

\* lines 122-129: the captured previous_deployment_id; None when the app has
\* no active deployment or the read raised
CapturedPrevious(readOk, current) ==
    IF readOk THEN current.deployment_id ELSE NoId

Capture ==
    /\ dpc = "capture"
    /\ \E readOk \in BOOLEAN :
        /\ readOk => appExists
        /\ prev' = CapturedPrevious(readOk, active)
        /\ captureRaised' = ~readOk
    /\ dpc' = "submit"
    /\ UNCHANGED <<cpVars, tracked, histVars, trueReturns, dpath, attempts, lastError,
                   response, now, deadline, dresult, dvia, derror,
                   activeAtCall, pollReads, quietRead, failedRead, lastShown,
                   okAt, cVars, delVars, logVars, pathVars, listVars, concVars, getVars>>

\* history: the count of calls that returned created=True, after a step that
\* left the call at position pc with result["created"] = flag
ReturnsCounted(n, pc, flag) == IF pc = "returned" /\ flag THEN n + 1 ELSE n

\* tools/apps.py lines 139-150: when deploy_app was called by
\* create_or_update_app and this step ends it, the caller merges the result
\* and returns, or the exception propagates through it
CallerResumes ==
    IF cpc = "deploy" /\ dpc' \in {"returned", "raised"}
    THEN /\ cpc' = dpc'
         /\ cdeployment' = dresult'
         /\ cerror' = derror'
         /\ trueReturns' = ReturnsCounted(trueReturns, dpc', created)
         /\ UNCHANGED <<craw, cpath, existing, created, existedAtCall,
                        callCreates, cpAtCall, oksAtCall, lookupRaised,
                        deployFailedBefore>>
    ELSE UNCHANGED <<cVars, trueReturns>>

\* mutant: the submit loop never gives up
SubmitLoopOpen_Unbounded(n) == TRUE

\* line 133: the submit loop goes on
SubmitLoopOpen(n) == n < DeployAttempts

\* lines 135-142: an attempt that succeeds; the loop is left
SubmitOk ==
    /\ dpc = "submit"
    /\ SubmitLoopOpen(attempts)
    /\ appExists
    /\ attempts' = attempts + 1
    /\ okAt' = attempts + 1
    /\ minted' = minted + 1
    /\ rolling' = Dep(minted + 1)
    /\ \E r \in DeployResponses(minted + 1) : response' = r
    /\ dpc' = "check"
    /\ UNCHANGED <<appExists, active, tracked, histVars, trueReturns, dpath, prev,
                   lastError, now, deadline, dresult, dvia, derror,
                   activeAtCall, pollReads, quietRead, failedRead, lastShown,
                   captureRaised, cVars, delVars, logVars, pathVars, listVars, concVars, getVars>>

\* mutant: the first error is kept instead of the last
NextLastError_KeepsFirst(old, e) == IF old = NoError THEN e ELSE old

\* line 144: last_error = e
NextLastError(old, e) == e

\* lines 143-149: an attempt that raises, then the 2s sleep; after the last
\* iteration, raise last_error
SubmitFail ==
    /\ dpc = "submit"
    /\ SubmitLoopOpen(attempts)
    /\ attempts' = attempts + 1
    /\ lastError' = NextLastError(lastError, Err("deploy", attempts + 1))
    /\ IF SubmitLoopOpen(attempts')
       THEN /\ dpc' = "submit"
            /\ derror' = derror
       ELSE /\ dpc' = "raised"
            /\ derror' = lastError'
    /\ UNCHANGED <<cpVars, tracked, histVars, dpath, prev, response, now,
                   deadline, dresult, dvia, activeAtCall, pollReads,
                   quietRead, failedRead, lastShown, okAt, captureRaised, delVars,
                   logVars, pathVars, listVars, concVars, getVars>>
    /\ CallerResumes

\* mutant: every response is polled on
NeedsPoll_Always(newId, previous) == TRUE

\* mutant: only a response with no id is polled on
NeedsPoll_OnlyEmpty(newId, previous) == newId = NoId

\* lines 161-163: the response does not show a new deployment
NeedsPoll(newId, previous) ==
    \/ newId = NoId
    \/ (previous # NoId /\ newId = previous)

\* lines 151-164 and 177: unwrap a Wait (its result() may raise), then return
\* the response at once or open the poll window
Check ==
    /\ dpc = "check"
    /\ \/ /\ dpc' = "raised"
          /\ derror' = Err("wait", 0)
          /\ UNCHANGED <<deadline, dresult, dvia>>
       \/ /\ NeedsPoll(response.deployment_id, prev)
          /\ deadline' = now + PollWindow
          /\ dpc' = "poll"
          /\ UNCHANGED <<derror, dresult, dvia>>
       \/ /\ ~NeedsPoll(response.deployment_id, prev)
          /\ dpc' = "returned"
          /\ dresult' = response
          /\ dvia' = "immediate"
          /\ UNCHANGED <<derror, deadline>>
    /\ UNCHANGED <<cpVars, tracked, histVars, dpath, prev, attempts,
                   lastError, response, now, activeAtCall, pollReads,
                   quietRead, failedRead, lastShown, okAt, captureRaised, delVars,
                   logVars, pathVars, listVars, concVars, getVars>>
    /\ CallerResumes

\* mutant: any active deployment counts as a transition
IsTransition_IgnoresPrevious(activeId, previous) == activeId # NoId

\* line 170: the read shows a transition
IsTransition(activeId, previous) == activeId # NoId /\ activeId # previous

\* mutant: a read that raised ends the poll
PollOpen_StopsAfterFailure(t, d) == t < d /\ ~failedRead

\* mutant: one more iteration at the deadline
PollOpen_Inclusive(t, d) == t <= d

\* line 165
PollOpen(t, d) == t < d

\* lines 165-175: one iteration of the poll: a get-app read, then either the
\* return of the active deployment or the 2s sleep
PollRead ==
    /\ dpc = "poll"
    /\ PollOpen(now, deadline)
    /\ pollReads' = pollReads + 1
    /\ \E readOk \in BOOLEAN :
        /\ readOk => appExists
        /\ lastShown' = IF readOk THEN active.deployment_id ELSE ReadFailed
        /\ IF readOk /\ IsTransition(active.deployment_id, prev)
           THEN /\ dpc' = "returned"
                /\ dresult' = active
                /\ dvia' = "transition"
                /\ UNCHANGED <<now, quietRead, failedRead>>
           ELSE /\ dpc' = "poll"
                /\ now' = now + PollInterval
                /\ quietRead' = (quietRead \/ readOk)
                /\ failedRead' = (failedRead \/ ~readOk)
                /\ UNCHANGED <<dresult, dvia>>
    /\ UNCHANGED <<cpVars, tracked, histVars, dpath, prev, attempts,
                   lastError, response, deadline, derror, activeAtCall,
                   okAt, captureRaised, delVars, logVars, pathVars, listVars, concVars, getVars>>
    /\ CallerResumes

\* line 177 after the window: the deploy response
TimeoutResult(submitted) == submitted

\* lines 165 and 177: the window is over
PollTimeout ==
    /\ dpc = "poll"
    /\ ~PollOpen(now, deadline)
    /\ dpc' = "returned"
    /\ dresult' = TimeoutResult(response)
    /\ dvia' = "timeout"
    /\ UNCHANGED <<cpVars, tracked, histVars, dpath, prev, attempts,
                   lastError, response, now, deadline, derror, activeAtCall,
                   pollReads, quietRead, failedRead, lastShown, okAt, captureRaised,
                   delVars, logVars, pathVars, listVars, concVars, getVars>>
    /\ CallerResumes

(***************************************************************************)
(* create_or_update_app (MCP tool)                                         *)
(***************************************************************************)
\* mutant: every path that starts with a slash is accepted
IsClearWorkspacePath_AnyAbsolute(path) == path # << >> /\ Head(path) = "/"

\* _is_clear_workspace_path
IsClearWorkspacePath(path) ==
    IF path = << >> THEN FALSE
    ELSE \/ StartsWith(path, WorkspacePrefix)
         \/ StartsWith(path, UsersPrefix)
         \/ StartsWith(path, SharedPrefix)
         \/ StartsWith(path, ReposPrefix)

\* mutant: the lookup tells an app that exists from one that does not even
\* when the read raised
FindAppByName_KnowsTruth(readOk) == appExists

\* _find_app_by_name: the app's dict (found), or None when get raised
FindAppByName(readOk) == readOk

\* lines 106 and 112: the conditions of the two validation errors
MissingPath(found, path) == ~found /\ path = << >>
UnclearPath(path) == path # << >> /\ ~IsClearWorkspacePath(path)

\* mutant: the result always says created
ResultCreated_Always(found) == TRUE

\* mutant: the result never says created
ResultCreated_Never(found) == FALSE

\* lines 118-122: result["created"]
ResultCreated(found) == ~found

\* the deploy_app locals while no invocation runs
DeployReset ==
    /\ dpc' = "idle"
    /\ DeployFresh(<< >>)

\* the create_or_update_app locals while no invocation runs
CouReset ==
    /\ cpc' = "idle"
    /\ craw' = << >>
    /\ cpath' = << >>
    /\ existing' = FALSE
    /\ created' = FALSE
    /\ cdeployment' = NoDep
    /\ cerror' = NoError
    /\ existedAtCall' = FALSE
    /\ callCreates' = 0
    /\ cpAtCall' = <<appExists', minted>>
    /\ oksAtCall' = createOks
    /\ lookupRaised' = FALSE
    /\ deployFailedBefore' = FALSE

\* lines 101-119 and 138-143: strip the path, look the app up, validate; for
\* an app found, go on to the deploy, or return when no path was given
CouCall ==
    /\ DeployIdle /\ CouIdle
    /\ calls < MaxAppCalls
    /\ calls' = calls + 1
    /\ \E p \in SourcePaths, readOk \in BOOLEAN :
        LET path == Strip(p)
            found == FindAppByName(readOk)
        IN  /\ readOk => appExists
            /\ craw' = p
            /\ cpath' = path
            /\ existing' = found
            /\ existedAtCall' = appExists
            /\ cpAtCall' = <<appExists, minted>>
            /\ oksAtCall' = createOks
            /\ lookupRaised' = ~readOk
            /\ deployFailedBefore' = (cpc = "raised" /\ cerror.kind = "deploy")
            /\ callCreates' = 0
            /\ cdeployment' = NoDep
            /\ IF MissingPath(found, path) \/ UnclearPath(path)
               THEN /\ cpc' = "raised"
                    /\ cerror' = Err("ValueError", 0)
                    /\ created' = FALSE
                    /\ DeployReset
               ELSE /\ cerror' = NoError
                    /\ IF ~found
                       THEN /\ cpc' = "create"
                            /\ created' = FALSE
                            /\ DeployReset
                       ELSE /\ created' = ResultCreated(found)
                            /\ IF path # << >>
                               THEN /\ cpc' = "deploy"
                                    /\ dpc' = "capture"
                                    /\ DeployFresh(NormalizePath(path))
                               ELSE /\ cpc' = "returned"
                                    /\ DeployReset
    /\ UNCHANGED <<cpVars, tracked, createReqs, createOks, deleteCalls,
                   absentAtStart, delVars, logVars, pathVars, listVars, concVars, getVars>>
    /\ trueReturns' = ReturnsCounted(trueReturns, cpc', created')

\* lines 121-143: create the app, track it (best effort), go on to the deploy
CouCreate ==
    /\ cpc = "create"
    /\ createReqs' = createReqs + 1
    /\ callCreates' = callCreates + 1
    /\ \/ \* the control plane creates the app
          /\ ~appExists
          /\ appExists' = TRUE
          /\ createOks' = createOks + 1
          /\ created' = ResultCreated(existing)
          /\ \E trackOk \in BOOLEAN : tracked' = (trackOk \/ tracked)
          /\ IF cpath # << >>
             THEN /\ cpc' = "deploy"
                  /\ dpc' = "capture"
                  /\ DeployFresh(NormalizePath(cpath))
             ELSE /\ cpc' = "returned"
                  /\ UNCHANGED dVars
          /\ UNCHANGED cerror
       \/ \* create raises: the name exists already, or a transient error
          /\ cerror' = IF appExists THEN Err("AlreadyExists", 0)
                       ELSE Err("CreateError", 0)
          /\ cpc' = "raised"
          /\ UNCHANGED <<appExists, createOks, created, tracked, dVars>>
    /\ trueReturns' = ReturnsCounted(trueReturns, cpc', created')
    /\ UNCHANGED <<active, rolling, minted, calls, deleteCalls, absentAtStart,
                   craw, cpath, existing, cdeployment, existedAtCall,
                   cpAtCall, oksAtCall, lookupRaised, deployFailedBefore, delVars, logVars,
                   pathVars, listVars, concVars, getVars>>

(***************************************************************************)
(* delete_app (MCP tool over the core delete_app)                          *)
(***************************************************************************)
\* tools/apps.py lines 230-240: the tracking entry after a successful delete
\* (remove_resource is best effort: it may raise and be swallowed)
AfterRemoveResource(was, removeOk) == IF removeOk THEN FALSE ELSE was

\* mutant: the tracking entry is removed whether or not the delete succeeded
TrackedAfterDelete_RemovesFirst(was, deleted, removeOk) ==
    IF removeOk THEN FALSE ELSE was

\* tools/apps.py lines 230-238: remove_resource is reached only when
\* _delete_app returned; when it raised, line 230 leaves the function
TrackedAfterDelete(was, deleted, removeOk) ==
    IF deleted THEN AfterRemoveResource(was, removeOk) ELSE was

DeleteCall ==
    /\ DeployIdle /\ CouIdle
    /\ calls < MaxAppCalls
    /\ calls' = calls + 1
    /\ deleteCalls' = deleteCalls + 1
    /\ trackedAtDelete' = tracked
    /\ \/ \* w.apps.delete succeeds
          /\ appExists
          /\ appExists' = FALSE
          /\ active' = NoDep
          /\ rolling' = NoDep
          /\ \E removeOk \in BOOLEAN :
                tracked' = TrackedAfterDelete(tracked, TRUE, removeOk)
          /\ delOutcome' = "deleted"
       \/ \* w.apps.delete raises (not found, or a transient error)
          /\ delOutcome' = "raised"
          /\ \E removeOk \in BOOLEAN :
                tracked' = TrackedAfterDelete(tracked, FALSE, removeOk)
          /\ UNCHANGED <<appExists, active, rolling>>
    /\ DeployReset
    /\ CouReset
    /\ UNCHANGED <<minted, createReqs, createOks, absentAtStart, trueReturns,
                   logVars, pathVars, listVars, concVars, getVars>>

\* create_or_update_app and delete_app calls one after the other, deploy_app
\* running inside create_or_update_app
AppNext ==
    \/ CouCall
    \/ CouCreate
    \/ DeleteCall
    \/ Capture
    \/ SubmitOk
    \/ SubmitFail
    \/ Check
    \/ PollRead
    \/ PollTimeout
    \/ Rollout

(***************************************************************************)
(* /logz websocket: bytes are 0..255, text is a sequence of code points    *)
(***************************************************************************)
MaxEntries == 500        \* max_entries = 500
LogWindow == 80          \* deadline = time.time() + 8, in tenths of a second
ReadTimeout == 15        \* tls.settimeout(1.5), in tenths of a second
OpText == 1              \* opcode 0x1
OpClose == 8             \* opcode 0x8
OpPing == 9              \* opcode 0x9
TextFirst == 129         \* 0x81: FIN + text
PongFirst == 138         \* 0x8A: FIN + pong
MaskBit == 128           \* 0x80

\* frames a script server sends at most
MaxFrames == 2
\* a read returns all it asked for, or a short read of at most this many bytes
MaxShort == 2
\* the longest the server waits before it sends a frame, in tenths of a second
MaxDelay == 10

ServerDelays == {0, MaxDelay}

\* the endpoints tried: one that sends a few frames of any kind, and two that
\* send text frames for as long as the client reads, back to back or one
\* each MaxDelay
ServerModes == {"script", "burst", "steady"}

\* os.urandom(4): the mask keys tried
MaskKeys == { <<0, 0, 0, 0>>, <<1, 2, 3, 4>> }

\* deployment_id or "": no id, and the id "d1"
Terms == { << >>, <<100, 49>> }

Min(a, b) == IF a <= b THEN a ELSE b
Take(s, k) == SubSeq(s, 1, k)
Drop(s, k) == SubSeq(s, k + 1, Len(s))

RECURSIVE Xor(_, _)
Xor(a, b) ==
    IF a = 0 /\ b = 0 THEN 0
    ELSE (((a % 2) + (b % 2)) % 2) + 2 * Xor(a \div 2, b \div 2)

\* struct.unpack("!H" / "!Q"): big-endian value of the bytes
RECURSIVE BigEndian(_)
BigEndian(bs) ==
    IF bs = << >> THEN 0
    ELSE (256 * BigEndian(Take(bs, Len(bs) - 1))) + bs[Len(bs)]

\* mutant: the low byte first
RECURSIVE ToBigEndian_LowFirst(_, _)
ToBigEndian_LowFirst(n, width) ==
    IF width = 0 THEN << >>
    ELSE <<n % 256>> \o ToBigEndian_LowFirst(n \div 256, width - 1)

\* struct.pack("!H" / "!Q"): n in width bytes, big-endian
RECURSIVE ToBigEndian(_, _)
ToBigEndian(n, width) ==
    IF width = 0 THEN << >>
    ELSE ToBigEndian(n \div 256, width - 1) \o <<n % 256>>

\* mutant: every byte under the first byte of the key
Masking_FirstKeyByte(data, key) ==
    [i \in 1..Len(data) |-> Xor(data[i], key[1])] \o << >>

\* bytes(b ^ mask[i % 4] for i, b in enumerate(payload)); key has 4 bytes
Masking(data, key) ==
    [i \in 1..Len(data) |-> Xor(data[i], key[((i - 1) % 4) + 1])] \o << >>

\* the generator of line 300 indexes past a mask shorter than 4 bytes
MaskIndexError(data, key) ==
    \E i \in 1..Len(data) : ((i - 1) % 4) + 1 > Len(key)

\* the UTF-8 bytes of one code point
Utf8Bytes(c) ==
    IF c < 128 THEN <<c>>
    ELSE IF c < 2048 THEN <<192 + (c \div 64), 128 + (c % 64)>>
    ELSE IF c < 65536
         THEN <<224 + (c \div 4096), 128 + ((c \div 64) % 64), 128 + (c % 64)>>
    ELSE <<240 + (c \div 262144), 128 + ((c \div 4096) % 64),
           128 + ((c \div 64) % 64), 128 + (c % 64)>>

\* str.encode("utf-8"): the bytes of the code points, one after the other
RECURSIVE Utf8Encode(_)
Utf8Encode(text) ==
    IF text = << >> THEN << >>
    ELSE IF Len(text) = 1 THEN Utf8Bytes(text[1])
    ELSE LET half == Len(text) \div 2
         IN  Utf8Encode(Take(text, half)) \o Utf8Encode(Drop(text, half))

IsContinuation(b) == b \in 128..191

\* the byte at i is the second byte of a two-byte sequence
IsSecondByte(bs, i) == i > 1 /\ bs[i - 1] \in 194..223 /\ IsContinuation(bs[i])

\* bytes.decode("utf-8", errors="replace") for sequences of one and two
\* bytes; any other byte becomes U+FFFD (no frame of the endpoints modelled
\* carries a longer sequence)
Utf8Decode(bs) ==
    LET starts == SelectSeq([i \in 1..Len(bs) |-> i], LAMBDA i : ~IsSecondByte(bs, i))
        char(i) == IF bs[i] < 128 THEN bs[i]
                   ELSE IF i < Len(bs) /\ IsSecondByte(bs, i + 1)
                        THEN ((bs[i] - 192) * 64) + (bs[i + 1] - 128)
                   ELSE 65533
    IN  [j \in 1..Len(starts) |-> char(starts[j])] \o << >>

\* the code points str.strip() removes
PyWhitespace ==
    {9, 10, 11, 12, 13, 28, 29, 30, 31, 32, 133, 160, 5760, 8232, 8233, 8239,
     8287, 12288} \cup (8192..8202)

RECURSIVE LStripText(_)
LStripText(t) ==
    IF t # << >> /\ Head(t) \in PyWhitespace THEN LStripText(Tail(t)) ELSE t

RECURSIVE RStripText(_)
RStripText(t) ==
    IF t # << >> /\ t[Len(t)] \in PyWhitespace
    THEN RStripText(Take(t, Len(t) - 1)) ELSE t

\* str.strip() on text
StripText(t) == RStripText(LStripText(t))

\* "\n".join(lines): the lines in order with one line feed between
\* neighbours, built by halves so that MaxEntries lines nest only a few
\* levels deep
RECURSIVE JoinLines(_)
JoinLines(ls) ==
    IF ls = << >> THEN << >>
    ELSE IF Len(ls) = 1 THEN ls[1]
    ELSE LET half == Len(ls) \div 2
         IN  JoinLines(Take(ls, half)) \o <<10>> \o JoinLines(Drop(ls, half))

\* mutant: the joined lines are returned as they are
ReturnedText_NotStripped(ls) == JoinLines(ls)

\* line 399
ReturnedText(ls) == StripText(JoinLines(ls))

\* sep.join(parts)
RECURSIVE JoinText(_, _)
JoinText(parts, sep) ==
    IF parts = << >> THEN << >>
    ELSE IF Len(parts) = 1 THEN parts[1]
    ELSE parts[1] \o sep \o JoinText(Tail(parts), sep)

\* the printable ASCII characters, from code point 32 on (three of them by
\* their names)
AsciiChars ==
    <<" ", "!", "quote", "#", "$", "%", "&", "'", "(", ")", "*", "+", ",", "-", ".", "/",
      "0", "1", "2", "3", "4", "5", "6", "7", "8", "9", ":", ";", "<", "=", ">", "?",
      "@", "A", "B", "C", "D", "E", "F", "G", "H", "I", "J", "K", "L", "M", "N", "O",
      "P", "Q", "R", "S", "T", "U", "V", "W", "X", "Y", "Z", "[", "backslash", "]", "^", "_",
      "backtick", "a", "b", "c", "d", "e", "f", "g", "h", "i", "j", "k", "l", "m", "n", "o",
      "p", "q", "r", "s", "t", "u", "v", "w", "x", "y", "z", "{", "|", "}", "~">>

\* ord(ch)
Ord(ch) == 31 + (CHOOSE i \in 1..Len(AsciiChars) : AsciiChars[i] = ch)

\* a string literal of the source as text
Text(chars) == [i \in 1..Len(chars) |-> Ord(chars[i])]

(***************************************************************************)
(* json.loads: values, and the scanner of the json module. Numbers are     *)
(* integers; fractions and exponents are not modelled.                     *)
(***************************************************************************)
\* a value: its type t, the text s of a string or number, the members m of
\* an object (key k, value v, as written) or the elements of an array
JStr(s) == [t |-> "str", s |-> s, m |-> << >>]
JInt(s) == [t |-> "int", s |-> s, m |-> << >>]
JConst(name) == [t |-> name, s |-> << >>, m |-> << >>]
JObj(m) == [t |-> "obj", s |-> << >>, m |-> m]
JArr(m) == [t |-> "arr", s |-> << >>, m |-> m]

\* the constants the scanner knows and the value each gives
JsonConstants ==
    << <<Text(<<"n","u","l","l">>), "None">>,
       <<Text(<<"t","r","u","e">>), "True">>,
       <<Text(<<"f","a","l","s","e">>), "False">>,
       <<Text(<<"N","a","N">>), "nan">>,
       <<Text(<<"I","n","f","i","n","i","t","y">>), "inf">>,
       <<Text(<<"-","I","n","f","i","n","i","t","y">>), "-inf">> >>

\* the outcome of scanning a value: the value and the text behind it, or
\* JSONDecodeError
Scanned(v, rest) == [ok |-> TRUE, v |-> v, rest |-> rest]
JSONDecodeError == [ok |-> FALSE, v |-> JConst("None"), rest |-> << >>]

\* WHITESPACE of json.decoder
JsonWhitespace == {32, 9, 10, 13}

RECURSIVE SkipWhitespace(_)
SkipWhitespace(s) ==
    IF s # << >> /\ Head(s) \in JsonWhitespace THEN SkipWhitespace(Tail(s)) ELSE s

\* the escapes of a string other than \u
Backslash ==
    [c \in {34, 92, 47, 98, 102, 110, 114, 116} |->
        CASE c = 98 -> 8 [] c = 102 -> 12 [] c = 110 -> 10 [] c = 114 -> 13
          [] c = 116 -> 9 [] OTHER -> c]

\* the four hex digits of a \u escape at the head of s, or -1
UnicodeEscape(s) ==
    LET IsHexDigit(c) == c \in (48..57) \cup (65..70) \cup (97..102)
        HexValue(c) == IF c <= 57 THEN c - 48 ELSE IF c <= 70 THEN c - 55 ELSE c - 87
    IN  IF Len(s) >= 6 /\ s[1] = 92 /\ s[2] = 117 /\ \A i \in 3..6 : IsHexDigit(s[i])
        THEN (4096 * HexValue(s[3])) + (256 * HexValue(s[4])) + (16 * HexValue(s[5]))
             + HexValue(s[6])
        ELSE -1

\* py_scanstring, behind the opening quote; acc is the text read so far
RECURSIVE ScanString(_, _)
ScanString(s, acc) ==
    IF s = << >> THEN JSONDecodeError
    ELSE IF Head(s) = 34 THEN Scanned(JStr(acc), Tail(s))
    ELSE IF Head(s) < 32 THEN JSONDecodeError
    ELSE IF Head(s) # 92 THEN ScanString(Tail(s), Append(acc, Head(s)))
    ELSE IF Len(s) >= 2 /\ s[2] \in DOMAIN Backslash
         THEN ScanString(Drop(s, 2), Append(acc, Backslash[s[2]]))
    ELSE LET uni == UnicodeEscape(s)
             low == UnicodeEscape(Drop(s, 6))
         IN  IF uni < 0 THEN JSONDecodeError
             ELSE IF uni \in 55296..56319 /\ low \in 56320..57343
                  THEN ScanString(Drop(s, 12),
                          Append(acc, 65536 + ((uni - 55296) * 1024) + (low - 56320)))
             ELSE ScanString(Drop(s, 6), Append(acc, uni))

\* the digits at the head of s
RECURSIVE Digits(_)
Digits(s) ==
    IF s # << >> /\ Head(s) \in 48..57 THEN <<Head(s)>> \o Digits(Tail(s)) ELSE << >>

\* NUMBER_RE and int(): -?(0|[1-9]\d*)
ScanInt(s) ==
    LET negative == s # << >> /\ Head(s) = 45
        body == IF negative THEN Tail(s) ELSE s
        all == Digits(body)
        digits == IF all # << >> /\ Head(all) = 48 THEN <<48>> ELSE all
    IN  IF digits = << >> THEN JSONDecodeError
        ELSE Scanned(JInt(IF negative /\ digits # <<48>> THEN <<45>> \o digits
                          ELSE digits),
                     Drop(body, Len(digits)))

\* the constant at the head of s, as an index of JsonConstants, or 0
ConstantAt(s) ==
    IF \E i \in 1..Len(JsonConstants) : StartsWith(s, JsonConstants[i][1])
    THEN CHOOSE i \in 1..Len(JsonConstants) : StartsWith(s, JsonConstants[i][1])
    ELSE 0

\* scan_once, JSONObject and JSONArray of json.scanner / json.decoder
RECURSIVE ScanOnce(_)
RECURSIVE ScanMembers(_, _)
RECURSIVE ScanElements(_, _)
ScanOnce(s) ==
    IF s = << >> THEN JSONDecodeError
    ELSE IF Head(s) = 34 THEN ScanString(Tail(s), << >>)
    ELSE IF Head(s) = 123
         THEN LET inner == SkipWhitespace(Tail(s))
              IN  IF inner # << >> /\ Head(inner) = 125
                  THEN Scanned(JObj(<< >>), Tail(inner))
                  ELSE ScanMembers(inner, << >>)
    ELSE IF Head(s) = 91
         THEN LET inner == SkipWhitespace(Tail(s))
              IN  IF inner # << >> /\ Head(inner) = 93
                  THEN Scanned(JArr(<< >>), Tail(inner))
                  ELSE ScanElements(inner, << >>)
    ELSE IF ConstantAt(s) # 0
         THEN Scanned(JConst(JsonConstants[ConstantAt(s)][2]),
                      Drop(s, Len(JsonConstants[ConstantAt(s)][1])))
    ELSE ScanInt(s)

\* s is at a key: "key" : value, then a comma or the closing brace
ScanMembers(s, acc) ==
    IF s = << >> \/ Head(s) # 34 THEN JSONDecodeError
    ELSE LET key == ScanString(Tail(s), << >>)
             colon == SkipWhitespace(key.rest)
         IN  IF ~key.ok \/ colon = << >> \/ Head(colon) # 58 THEN JSONDecodeError
             ELSE LET value == ScanOnce(SkipWhitespace(Tail(colon)))
                      after == SkipWhitespace(value.rest)
                      members == Append(acc, [k |-> key.v.s, v |-> value.v])
                  IN  IF ~value.ok \/ after = << >> THEN JSONDecodeError
                      ELSE IF Head(after) = 125 THEN Scanned(JObj(members), Tail(after))
                      ELSE IF Head(after) = 44
                           THEN ScanMembers(SkipWhitespace(Tail(after)), members)
                      ELSE JSONDecodeError

\* s is at an element: value, then a comma or the closing bracket
ScanElements(s, acc) ==
    LET value == ScanOnce(s)
        after == SkipWhitespace(value.rest)
        elements == Append(acc, value.v)
    IN  IF ~value.ok \/ after = << >> THEN JSONDecodeError
        ELSE IF Head(after) = 93 THEN Scanned(JArr(elements), Tail(after))
        ELSE IF Head(after) = 44 THEN ScanElements(SkipWhitespace(Tail(after)), elements)
        ELSE JSONDecodeError

\* json.loads(text): one value with whitespace around it and nothing else
JsonLoads(text) ==
    LET value == ScanOnce(SkipWhitespace(text))
    IN  IF value.ok /\ SkipWhitespace(value.rest) = << >> THEN value
        ELSE JSONDecodeError

\* dict.get(key, default) on the members as written: the last one counts
RECURSIVE DictGet(_, _, _)
DictGet(m, key, default) ==
    IF m = << >> THEN default
    ELSE IF m[Len(m)].k = key THEN m[Len(m)].v
    ELSE DictGet(Take(m, Len(m) - 1), key, default)

\* the members of the dict: each key once, where it came first
RECURSIVE DictItems(_, _)
DictItems(m, all) ==
    IF m = << >> THEN << >>
    ELSE LET last == m[Len(m)]
             before == Take(m, Len(m) - 1)
         IN  IF \E i \in 1..Len(before) : before[i].k = last.k
             THEN DictItems(before, all)
             ELSE Append(DictItems(before, all),
                         [k |-> last.k, v |-> DictGet(all, last.k, last.v)])

\* repr(v) and str(v); the strings inside a list or dict are quoted with '
\* (they hold no quote, backslash or unprintable character)
RECURSIVE PyRepr(_)
PyRepr(v) ==
    CASE v.t = "str" -> <<39>> \o v.s \o <<39>>
      [] v.t = "int" -> v.s
      [] v.t = "arr" ->
            <<91>> \o JoinText([i \in 1..Len(v.m) |-> PyRepr(v.m[i])], <<44, 32>>)
            \o <<93>>
      [] v.t = "obj" ->
            LET items == DictItems(v.m, v.m)
            IN  <<123>>
                \o JoinText([i \in 1..Len(items) |->
                                <<39>> \o items[i].k \o <<39, 58, 32>>
                                \o PyRepr(items[i].v)],
                            <<44, 32>>)
                \o <<125>>
      [] v.t = "None" -> Text(<<"N","o","n","e">>)
      [] v.t = "True" -> Text(<<"T","r","u","e">>)
      [] v.t = "False" -> Text(<<"F","a","l","s","e">>)
      [] v.t = "nan" -> Text(<<"n","a","n">>)
      [] v.t = "inf" -> Text(<<"i","n","f">>)
      [] OTHER -> Text(<<"-","i","n","f">>)

PyStr(v) == IF v.t = "str" THEN v.s ELSE PyRepr(v)

\* the keys of a log entry
KeyTimestamp == Text(<<"t","i","m","e","s","t","a","m","p">>)
KeySource == Text(<<"s","o","u","r","c","e">>)
KeySeverity == Text(<<"s","e","v","e","r","i","t","y">>)
KeyMessage == Text(<<"m","e","s","s","a","g","e">>)

\* line 394: the prefix of the line, from the three values as str() gives them
Prefix(ts, source, severity) ==
    StripText(JoinText(SelectSeq(<<ts, source, severity>>, LAMBDA x : x # << >>),
                       <<32>>))

\* line 395
RenderedLine(prefix, message) ==
    IF prefix # << >> THEN prefix \o <<58, 32>> \o message ELSE message

\* lines 388-397: the line kept for a text frame; json.loads raises on text
\* that is no JSON, entry.get on a value that is no object, and the text is
\* kept as it is
LogLine(text) ==
    LET entry == JsonLoads(text)
    IN  IF ~entry.ok \/ entry.v.t # "obj" THEN text
        ELSE LET get(key) == PyStr(DictGet(entry.v.m, key, JStr(<< >>)))
             IN  RenderedLine(Prefix(get(KeyTimestamp), get(KeySource), get(KeySeverity)),
                              get(KeyMessage))

\* lines 264-273 and 367-377: a masked client frame
EncodeFrame(first, data, key) ==
    LET n == Len(data)
        header == IF n < 126 THEN <<first, MaskBit + n>>
                  ELSE IF n < 65536
                       THEN <<first, MaskBit + 126>> \o ToBigEndian(n, 2)
                  ELSE <<first, MaskBit + 127>> \o ToBigEndian(n, 8)
    IN  header \o key \o Masking(data, key)

\* history: what a frame was built from
Plain(first, data, key) == [first |-> first, data |-> data, key |-> key]
NoProbe == [first |-> 0, data |-> << >>, key |-> << >>]

\* mutant: the subscribe frame carries an empty payload whatever the term
WsSendText_NoTerm(text, key) == EncodeFrame(TextFirst, << >>, key)

\* _ws_send_text: the bytes handed to sendall
WsSendText(text, key) == EncodeFrame(TextFirst, Utf8Encode(text), key)

(***************************************************************************)
(* The /logz endpoint: responses to the upgrade request, and frames        *)
(***************************************************************************)
\* the response, line by line: a status line with or without " 101 ",
\* a header line, the blank line that ends the header block
ResponseOk == <<"101", "eoh">>
ResponseHeaders == <<"101", "hdr", "eoh">>
ResponseRefused == <<"302", "hdr", "eoh">>
ResponseCut == <<"101", "hdr">>
Responses == { ResponseOk, ResponseHeaders, ResponseRefused, ResponseCut }

FrameTextA == <<129, 1, 97>>                   \* text "a"
FrameBlank == <<129, 1, 32>>                   \* text " "
FrameIndented == <<129, 2, 32, 97>>            \* text " a"
FrameSentinel == <<129, 1, 0>>                 \* text "\x00"
FrameJson == <<129, 2, 123, 125>>              \* text "{}"
FramePing == <<137, 1, 112>>                   \* ping "p"
FramePong == <<138, 0>>                        \* pong
FrameClose == <<136, 0>>                       \* close
FrameMasked == <<129, 130, 1, 2, 3, 4, 96, 96>> \* text "ab" under mask 1 2 3 4
FrameLen16 == <<129, 126, 0, 2, 97, 98>>       \* text "ab", 16-bit length
FrameLen64 == <<129, 127, 0, 0, 0, 0, 0, 0, 0, 1, 98>>  \* text "b", 64-bit length
FrameBinary == <<130, 1, 97>>                  \* binary, one byte

FrameMenu ==
    { FrameTextA, FrameBlank, FrameIndented, FrameSentinel, FrameJson, FramePing, FramePong,
      FrameClose, FrameMasked, FrameLen16, FrameLen64, FrameBinary }

(***************************************************************************)
(* _get_app_logs_via_logz_ws                                               *)
(***************************************************************************)
\* the way an action leaves the function or goes on in it
Goto(pc) ==
    /\ lpc' = pc
    /\ UNCHANGED <<sock, outVars>>

\* no exception, or one that carries nothing of the response
NoMessage == [status |-> << >>, body |-> << >>]

\* lines 399-404: return the text; the finally clause closes the socket
LogReturns(ls) ==
    /\ lpc' = "done"
    /\ loutcome' = "returned"
    /\ lresult' = ReturnedText(ls)
    /\ lerror' = "none"
    /\ lcarried' = NoMessage
    /\ sock' = "closed"

\* lines 400-404: an exception raised inside the try block leaves through the
\* finally clause, which closes the socket
LogRaises(e) ==
    /\ lpc' = "done"
    /\ loutcome' = "raised"
    /\ lerror' = e
    /\ lcarried' = NoMessage
    /\ lresult' = << >>
    /\ sock' = "closed"

\* line 346: the status line, the first line of what was read
StatusLine(r) == IF r = << >> THEN << >> ELSE <<Head(r)>>

\* line 348: the message of the RuntimeError, built from the response r:
\* the status line, and nothing of what follows the header block
UpgradeMessage(r) == [status |-> StatusLine(r), body |-> << >>]

\* lines 347-348 and 400-404: the upgrade was refused
LogRaisesUpgradeFailed(r) ==
    /\ lpc' = "done"
    /\ loutcome' = "raised"
    /\ lerror' = "RuntimeError"
    /\ lcarried' = UpgradeMessage(r)
    /\ lresult' = << >>
    /\ sock' = "closed"

\* mutant: one more line than the cap is let in
LoopOpen_OneMore(t, d, ls) == t < d /\ Len(ls) <= MaxEntries

\* line 358: the loop condition, at time t with deadline d and lines ls
LoopOpen(t, d, ls) == t < d /\ Len(ls) < MaxEntries

\* line 358: back at the top of the loop
LoopTop(t, d, ls) ==
    IF LoopOpen(t, d, ls) THEN Goto("header") ELSE LogReturns(ls)

\* the locals of _ws_recv_frame before a frame is read
FrameFresh ==
    /\ opcode' = 0
    /\ masked' = FALSE
    /\ length' = 0
    /\ mask' = << >>
    /\ payload' = << >>

\* lines 306-320, called with the search term t: look the app up, take its
\* URL and the authorization header; any of these may raise before a
\* connection exists
LogEnter(t) ==
    /\ lpc = "idle"
    /\ term' = t
    /\ \E m \in ServerModes : serverMode' = m
    /\ \/ /\ appExists
          /\ Goto("connect")
       \/ /\ lpc' = "done"
          /\ loutcome' = "raised"
          /\ lerror' = "ValueError"
          /\ UNCHANGED <<sock, lcarried, lresult>>
    /\ UNCHANGED <<resp, surplus, frameVars, lines, clock, ldeadline,
                   framesLeft, httpWire, wire, peerClosed, sendVars, readVars>>

\* _get_app_logs_via_logz_ws called on its own, with or without an id
LogCall ==
    /\ \E t \in Terms : LogEnter(t)
    /\ UNCHANGED <<cpVars, tracked, histVars, trueReturns, dVars, cVars, delVars,
                   pathVars, listVars, concVars, getVars>>

\* line 336: socket.create_connection; when it raises there is no socket
LogConnect ==
    /\ lpc = "connect"
    /\ \/ /\ lpc' = "tls"
          /\ sock' = "open"
          /\ UNCHANGED outVars
       \/ /\ lpc' = "done"
          /\ loutcome' = "raised"
          /\ lerror' = "OSError"
          /\ UNCHANGED <<sock, lcarried, lresult>>
    /\ UNCHANGED <<term, resp, surplus, frameVars, lines, clock, ldeadline,
                   srvVars, wire, peerClosed, sendVars, readVars>>
    /\ UNCHANGED <<cpVars, tracked, histVars, trueReturns, dVars, cVars, delVars,
                   pathVars, listVars, concVars, getVars>>

\* the descriptor after line 337 raised: a failed handshake closes the TLS
\* socket that has taken the descriptor over (ssl.SSLSocket._create); an
\* exception raised before that (ssl.create_default_context, the checks at
\* the head of wrap_socket) leaves raw as it is, and no handler closes it
AfterTlsError(takenOver) == IF takenOver THEN "closed" ELSE "open"

\* line 337: the TLS context and handshake, outside the try block
LogTls ==
    /\ lpc = "tls"
    /\ \/ Goto("request")
       \/ /\ lpc' = "done"
          /\ loutcome' = "raised"
          /\ lerror' = "SSLError"
          /\ \E takenOver \in BOOLEAN : sock' = AfterTlsError(takenOver)
          /\ UNCHANGED <<lcarried, lresult>>
    /\ UNCHANGED <<term, resp, surplus, frameVars, lines, clock, ldeadline,
                   srvVars, wire, peerClosed, sendVars, readVars>>
    /\ UNCHANGED <<cpVars, tracked, histVars, trueReturns, dVars, cVars, delVars,
                   pathVars, listVars, concVars, getVars>>

\* line 339: send the upgrade request; a script server answers with one of
\* its responses, and may send its first frame right behind it; the others
\* accept the upgrade
LogRequest ==
    /\ lpc = "request"
    /\ \/ /\ Goto("response")
          /\ IF serverMode # "script"
             THEN /\ httpWire' = ResponseOk
                  /\ wire' = << >>
                  /\ framesLeft' = 0
             ELSE /\ \E r \in Responses : httpWire' = r
                  /\ \/ /\ wire' = << >>
                        /\ framesLeft' = MaxFrames
                     \/ /\ wire' = FrameTextA
                        /\ framesLeft' = MaxFrames - 1
       \/ /\ LogRaises("OSError")
          /\ UNCHANGED <<httpWire, wire, framesLeft>>
    /\ UNCHANGED <<term, resp, surplus, frameVars, lines, clock, ldeadline,
                   serverMode, peerClosed, sendVars, readVars>>
    /\ UNCHANGED <<cpVars, tracked, histVars, trueReturns, dVars, cVars, delVars,
                   pathVars, listVars, concVars, getVars>>

\* line 341: the header block is complete
HeadersComplete(r) == \E i \in 1..Len(r) : r[i] = "eoh"

\* lines 346-347: the status line carries " 101 "
StatusSwitching(r) == r # << >> /\ Head(r) = "101"

\* what tls.recv(4096) can return while the response is read: j lines of
\* the response and, behind its last line, b bytes of the first frame
ResponseChunks ==
    { c \in (0..Len(httpWire)) \X (0..Len(wire)) :
        /\ c[1] + c[2] >= 1
        /\ c[2] > 0 => c[1] = Len(httpWire)
        /\ c[2] <= MaxShort \/ c[2] = Len(wire) }

\* lines 340-348: one tls.recv(4096) of the response loop and, when the loop
\* is left, the check of the status line
LogReadResponse ==
    /\ lpc = "response"
    /\ \/ \* a chunk
          \E c \in ResponseChunks :
            /\ resp' = resp \o Take(httpWire, c[1])
            /\ surplus' = surplus \o Take(wire, c[2])
            /\ httpWire' = Drop(httpWire, c[1])
            /\ wire' = Drop(wire, c[2])
            /\ IF ~HeadersComplete(resp') THEN Goto("response")
               ELSE IF StatusSwitching(resp') THEN Goto("subscribe")
               ELSE LogRaisesUpgradeFailed(resp')
            /\ UNCHANGED peerClosed
       \/ \* b"": the server closed the stream
          /\ peerClosed' = TRUE
          /\ httpWire' = << >>
          /\ wire' = << >>
          /\ IF StatusSwitching(resp) THEN Goto("subscribe")
             ELSE LogRaisesUpgradeFailed(resp)
          /\ UNCHANGED <<resp, surplus>>
       \/ \* the read raises: the 10s timeout, a reset
          /\ LogRaises("OSError")
          /\ UNCHANGED <<resp, surplus, httpWire, wire, peerClosed>>
    /\ UNCHANGED <<term, frameVars, lines, clock, ldeadline, serverMode,
                   framesLeft, sendVars, readVars>>
    /\ UNCHANGED <<cpVars, tracked, histVars, trueReturns, dVars, cVars, delVars,
                   pathVars, listVars, concVars, getVars>>

\* lines 351-358: send the search term, set the read timeout, start the
\* window and enter the loop
LogSubscribe ==
    /\ lpc = "subscribe"
    /\ \/ /\ \E key \in MaskKeys :
                /\ sent' = Append(sent, WsSendText(term, key))
                /\ sentPlain' = Append(sentPlain, Plain(TextFirst, Utf8Encode(term), key))
          /\ ldeadline' = clock + LogWindow
          /\ LoopTop(clock, ldeadline', lines)
       \/ /\ LogRaises("OSError")
          /\ UNCHANGED <<sendVars, ldeadline>>
    /\ UNCHANGED <<term, resp, surplus, frameVars, lines, clock, srvVars, wire,
                   peerClosed, readVars>>
    /\ UNCHANGED <<cpVars, tracked, histVars, trueReturns, dVars, cVars, delVars,
                   pathVars, listVars, concVars, getVars>>

(***************************************************************************)
(* Reads of the receive loop                                               *)
(***************************************************************************)
\* bytes of the extended length for the 7-bit length read from the header
ExtendedWidth(len) == IF len = 126 THEN 2 ELSE 8

\* the sizes a read of n bytes can return with avail bytes on their way
ChunkSizes(n, avail) ==
    { k \in 1..Min(n, avail) : k <= MaxShort \/ k = Min(n, avail) }

\* sock.recv(n) under the 1.5s timeout: k bytes, b"" (the server closed the
\* stream, also in the middle of a frame), socket.timeout (nothing came in
\* time), or another error (a reset, a TLS error). From a "whole" endpoint
\* every read returns the bytes asked for as far as the stream has them, and
\* b"" behind its last byte
RecvOutcomes(n) ==
    IF peerClosed THEN { [kind |-> "eof", k |-> 0] }
    ELSE IF serverMode = "whole"
         THEN IF wire = << >> THEN { [kind |-> "eof", k |-> 0] }
              ELSE { [kind |-> "data", k |-> Min(n, Len(wire))] }
    ELSE { [kind |-> "data", k |-> k] : k \in ChunkSizes(n, Len(wire)) }
         \cup { [kind |-> "eof", k |-> 0], [kind |-> "timeout", k |-> 0],
                [kind |-> "error", k |-> 0] }

\* the bytes a read returned
Got(o) == Take(wire, o.k)

\* what a read at position at does to the stream and the clock
Recv(o, at) ==
    /\ wire' = IF o.kind = "data" THEN Drop(wire, o.k)
               ELSE IF o.kind = "eof" THEN << >> ELSE wire
    /\ peerClosed' = (peerClosed \/ o.kind = "eof")
    /\ clock' = IF o.kind = "timeout" THEN clock + ReadTimeout ELSE clock
    /\ eofAt' = IF o.kind = "eof" /\ eofAt = "none" THEN at ELSE eofAt
    /\ timeoutAt' = IF o.kind = "timeout" THEN at ELSE timeoutAt
    /\ probe' = IF probe # NoProbe /\ at = "header" /\ o.kind = "data"
                THEN [probe EXCEPT !.headers = @ + 1] ELSE probe

\* the bytes the read the client is in asks for
Wanted ==
    CASE lpc = "header" -> 2
      [] lpc = "extlen" -> ExtendedWidth(length)
      [] lpc = "mask" -> 4
      [] lpc = "payload" -> length - Len(payload)
      [] OTHER -> 0

\* the server sends its next frame while the client waits for bytes, after a
\* delay shorter than the timeout
ServerSend ==
    /\ Len(wire) < Wanted
    /\ ~peerClosed
    /\ IF serverMode = "script"
       THEN /\ framesLeft > 0
            /\ framesLeft' = framesLeft - 1
            /\ \E f \in FrameMenu : wire' = wire \o f
            /\ \E d \in ServerDelays : clock' = clock + d
       ELSE /\ wire' = wire \o FrameTextA
            /\ clock' = clock + (IF serverMode = "steady" THEN MaxDelay ELSE 0)
            /\ UNCHANGED framesLeft
    /\ UNCHANGED <<lpc, sock, term, resp, surplus, frameVars, lines, ldeadline,
                   outVars, serverMode, httpWire, peerClosed, sendVars, readVars>>
    /\ UNCHANGED <<cpVars, tracked, histVars, trueReturns, dVars, cVars, delVars,
                   pathVars, listVars, concVars, getVars>>

\* lines 286-297: the read that follows the header, the length, the mask
\* (and a mutant that reads a key behind every length)
AfterMask(len) == IF len > 0 THEN "payload" ELSE "frame"
AfterLength_AlwaysKey(len, isMasked) == "mask"
AfterLength(len, isMasked) == IF isMasked THEN "mask" ELSE AfterMask(len)
AfterHeader(len, isMasked) ==
    IF len \in {126, 127} THEN "extlen" ELSE AfterLength(len, isMasked)

\* lines 277-284 (and 360-365): the 2-byte header
WsRecvHeader ==
    /\ lpc = "header"
    /\ \E o \in RecvOutcomes(2) :
        /\ Recv(o, "header")
        /\ IF o.kind = "data" /\ o.k = 2
           THEN /\ opcode' = Got(o)[1] % 16
                /\ masked' = (Got(o)[2] >= MaskBit)
                /\ length' = Got(o)[2] % MaskBit
                /\ mask' = << >>
                /\ payload' = << >>
                /\ Goto(AfterHeader(length', masked'))
           ELSE /\ FrameFresh
                /\ CASE o.kind = "data" -> LogRaises("IndexError")
                     [] o.kind = "eof" -> LogReturns(lines)
                     [] o.kind = "timeout" -> LogReturns(lines)
                     [] OTHER -> LogRaises("OSError")
    /\ UNCHANGED <<term, resp, surplus, lines, ldeadline, srvVars, sendVars>>
    /\ UNCHANGED <<cpVars, tracked, histVars, trueReturns, dVars, cVars, delVars,
                   pathVars, listVars, concVars, getVars>>

\* lines 286-289: the extended length; struct.unpack raises struct.error on
\* fewer bytes than the format needs
WsRecvLength ==
    /\ lpc = "extlen"
    /\ \E o \in RecvOutcomes(ExtendedWidth(length)) :
        /\ Recv(o, "extlen")
        /\ IF o.kind = "data" /\ o.k = ExtendedWidth(length)
           THEN /\ length' = BigEndian(Got(o))
                /\ Goto(AfterLength(length', masked))
           ELSE /\ UNCHANGED length
                /\ CASE o.kind = "data" -> LogRaises("struct.error")
                     [] o.kind = "eof" -> LogRaises("struct.error")
                     [] o.kind = "timeout" -> LogReturns(lines)
                     [] OTHER -> LogRaises("OSError")
    /\ UNCHANGED <<term, resp, surplus, opcode, masked, mask, payload, lines,
                   ldeadline, srvVars, sendVars>>
    /\ UNCHANGED <<cpVars, tracked, histVars, trueReturns, dVars, cVars, delVars,
                   pathVars, listVars, concVars, getVars>>

\* line 291: the mask key, as many bytes as the read returned
WsRecvMask ==
    /\ lpc = "mask"
    /\ \E o \in RecvOutcomes(4) :
        /\ Recv(o, "mask")
        /\ IF o.kind \in {"data", "eof"}
           THEN /\ mask' = Got(o)
                /\ Goto(AfterMask(length))
           ELSE /\ UNCHANGED mask
                /\ IF o.kind = "timeout" THEN LogReturns(lines)
                   ELSE LogRaises("OSError")
    /\ UNCHANGED <<term, resp, surplus, opcode, masked, length, payload, lines,
                   ldeadline, srvVars, sendVars>>
    /\ UNCHANGED <<cpVars, tracked, histVars, trueReturns, dVars, cVars, delVars,
                   pathVars, listVars, concVars, getVars>>

\* lines 293-297: one read of the payload loop; b"" leaves the loop
WsRecvPayload ==
    /\ lpc = "payload"
    /\ \E o \in RecvOutcomes(length - Len(payload)) :
        /\ Recv(o, "payload")
        /\ IF o.kind \in {"data", "eof"}
           THEN /\ payload' = payload \o Got(o)
                /\ IF o.kind = "data" /\ Len(payload') < length
                   THEN Goto("payload") ELSE Goto("frame")
           ELSE /\ UNCHANGED payload
                /\ IF o.kind = "timeout" THEN LogReturns(lines)
                   ELSE LogRaises("OSError")
    /\ UNCHANGED <<term, resp, surplus, opcode, masked, length, mask, lines,
                   ldeadline, srvVars, sendVars>>
    /\ UNCHANGED <<cpVars, tracked, histVars, trueReturns, dVars, cVars, delVars,
                   pathVars, listVars, concVars, getVars>>

\* mutant: no text is taken for the sentinel
IsSentinel_Never(text) == FALSE

\* line 383: text == "\x00"
IsSentinel(text) == text = <<0>>

\* mutant: the payload is returned as it was read
Unmasked_Never(data, isMasked, key) == data

\* lines 299-300: the payload _ws_recv_frame returns
Unmasked(data, isMasked, key) ==
    IF isMasked /\ key # << >> THEN Masking(data, key) ELSE data

\* mutant: every control frame other than a ping ends the loop
EndsLoop_AnyControl(op) == op >= OpClose /\ op # OpPing

\* mutant: no frame ends the loop
EndsLoop_Never(op) == FALSE

\* line 364: the opcode of a frame that ends the loop
EndsLoop(op) == op = OpClose

\* mutant: the pong carries no payload
Pong_Empty(data, key) == EncodeFrame(PongFirst, << >>, key)

\* lines 367-377: the bytes of the pong handed to sendall
Pong(data, key) == EncodeFrame(PongFirst, data, key)

\* lines 299-301 and 364-397: unmask the payload, then act on the frame
LogDispatch ==
    /\ lpc = "frame"
    /\ IF masked /\ mask # << >> /\ MaskIndexError(payload, mask)
       THEN /\ LogRaises("IndexError")
            /\ UNCHANGED <<lines, sendVars>>
       ELSE LET data == Unmasked(payload, masked, mask)
                text == Utf8Decode(data)
            IN  IF EndsLoop(opcode)
                THEN /\ LogReturns(lines)
                     /\ UNCHANGED <<lines, sendVars>>
                ELSE IF opcode = OpPing
                THEN /\ \/ /\ \E key \in MaskKeys :
                                /\ sent' = Append(sent, Pong(data, key))
                                /\ sentPlain' = Append(sentPlain, Plain(PongFirst, data, key))
                           /\ LoopTop(clock, ldeadline, lines)
                        \/ /\ LogRaises("OSError")
                           /\ UNCHANGED sendVars
                     /\ UNCHANGED lines
                ELSE IF opcode # OpText
                THEN /\ LoopTop(clock, ldeadline, lines)
                     /\ UNCHANGED <<lines, sendVars>>
                ELSE IF IsSentinel(text)
                THEN /\ LogReturns(lines)
                     /\ UNCHANGED <<lines, sendVars>>
                ELSE IF StripText(text) = << >>
                THEN /\ LoopTop(clock, ldeadline, lines)
                     /\ UNCHANGED <<lines, sendVars>>
                ELSE /\ lines' = Append(lines, LogLine(text))
                     /\ LoopTop(clock, ldeadline, lines')
                     /\ UNCHANGED sendVars
    /\ UNCHANGED <<term, resp, surplus, frameVars, clock, ldeadline, srvVars,
                   wire, peerClosed, readVars>>
    /\ UNCHANGED <<cpVars, tracked, histVars, trueReturns, dVars, cVars, delVars,
                   pathVars, listVars, concVars, getVars>>

\* one log fetch against the endpoint
LogNext ==
    \/ LogCall
    \/ LogConnect
    \/ LogTls
    \/ LogRequest
    \/ LogReadResponse
    \/ LogSubscribe
    \/ ServerSend
    \/ WsRecvHeader
    \/ WsRecvLength
    \/ WsRecvMask
    \/ WsRecvPayload
    \/ LogDispatch

(***************************************************************************)
(* Specification of deploy_app                                             *)
(***************************************************************************)
\* the control plane and the tool layer before any call
AppInit ==
    /\ appExists \in BOOLEAN
    /\ active \in {NoDep, Dep(1)}
    /\ (~appExists) => active = NoDep
    /\ minted = active.deployment_id
    /\ rolling = NoDep
    /\ tracked = appExists
    /\ calls = 0
    /\ createReqs = 0
    /\ createOks = 0
    /\ deleteCalls = 0
    /\ absentAtStart = ~appExists
    /\ trueReturns = 0
    /\ dpc = "idle"
    /\ dpath = << >>
    /\ prev = NoId
    /\ attempts = 0
    /\ lastError = NoError
    /\ response = NoDep
    /\ now = 0
    /\ deadline = 0
    /\ dresult = NoDep
    /\ dvia = "none"
    /\ derror = NoError
    /\ activeAtCall = NoId
    /\ pollReads = 0
    /\ quietRead = FALSE
    /\ failedRead = FALSE
    /\ lastShown = NoId
    /\ okAt = 0
    /\ captureRaised = FALSE
    /\ cpc = "idle"
    /\ craw = << >>
    /\ cpath = << >>
    /\ existing = FALSE
    /\ created = FALSE
    /\ cdeployment = NoDep
    /\ cerror = NoError
    /\ existedAtCall = FALSE
    /\ callCreates = 0
    /\ cpAtCall = <<appExists, minted>>
    /\ oksAtCall = 0
    /\ lookupRaised = FALSE
    /\ deployFailedBefore = FALSE
    /\ delOutcome = "none"
    /\ trackedAtDelete = FALSE

\* no log fetch has been called
LogIdle ==
    /\ lpc = "idle"
    /\ sock = "none"
    /\ term = << >>
    /\ resp = << >>
    /\ surplus = << >>
    /\ opcode = 0
    /\ masked = FALSE
    /\ length = 0
    /\ mask = << >>
    /\ payload = << >>
    /\ lines = << >>
    /\ clock = 0
    /\ ldeadline = 0
    /\ loutcome = "none"
    /\ lerror = "none"
    /\ lresult = << >>
    /\ serverMode = "script"
    /\ framesLeft = 0
    /\ httpWire = << >>
    /\ wire = << >>
    /\ peerClosed = FALSE
    /\ sent = << >>
    /\ eofAt = "none"
    /\ lcarried = NoMessage
    /\ sentPlain = << >>
    /\ timeoutAt = "none"
    /\ probe = NoProbe

\* _normalize_workspace_source_path is not being followed
PathIdle ==
    /\ npc = "idle"
    /\ givenPath = << >>
    /\ normalizedPath = << >>
    /\ renormalizedPath = << >>

\* list_apps has not been called
ListIdle ==
    /\ listPc = "idle"
    /\ listing = << >>
    /\ nameContains = << >>
    /\ limit = 0
    /\ results = << >>

\* the calls that run at the same time
Callers == {1, 2}

\* a call that has not been made: its position and the locals of
\* create_or_update_app and of deploy_app
IdleCaller ==
    [op |-> "none", pc |-> "idle", path |-> << >>, existing |-> FALSE,
     created |-> FALSE, dpath |-> << >>, prev |-> NoId, captureRaised |-> FALSE,
     attempts |-> 0, lastError |-> NoError, response |-> NoDep, own |-> NoId,
     now |-> 0, deadline |-> 0, result |-> NoDep, via |-> "none",
     error |-> NoError]

\* no concurrent call has been made
ConcIdle == caller = [i \in Callers |-> IdleCaller]

\* what get_app_logs has returned: an error dict of line 243 or 245, or the
\* dict of line 250 with the id whose logs were fetched
LogsResult(kind, id) == [kind |-> kind, deployment_id |-> id]
NoLogsResult == LogsResult("none", << >>)

\* get_app_logs is not being followed
GetIdle ==
    /\ gpc = "idle"
    /\ givenId = << >>
    /\ shown = "unread"
    /\ gresult = NoLogsResult

Init == AppInit /\ LogIdle /\ PathIdle /\ ListIdle /\ ConcIdle /\ GetIdle

Next ==
    \/ DeployCall
    \/ Capture
    \/ SubmitOk
    \/ SubmitFail
    \/ Check
    \/ PollRead
    \/ PollTimeout
    \/ Rollout

Spec == Init /\ [][Next]_vars

AppSpec == Init /\ [][AppNext]_vars

\* a log fetch for an app that exists and has an active deployment
LogInit == Init /\ appExists /\ active = Dep(1)

LogSpec == LogInit /\ [][LogNext]_vars

(***************************************************************************)
(* The frame codec and the rendering of a line on their own: the session   *)
(* is at its first frame read, one frame is on the stream, and every read  *)
(* returns the bytes asked for                                             *)
(***************************************************************************)
\* a frame as the server writes it: the first byte, the length with or
\* without the MASK bit, the key of a masked frame, the payload
ServerFrame(first, data, isMasked, key) ==
    LET n == Len(data)
        bit == IF isMasked THEN MaskBit ELSE 0
        header == IF n < 126 THEN <<first, bit + n>>
                  ELSE IF n < 65536 THEN <<first, bit + 126>> \o ToBigEndian(n, 2)
                  ELSE <<first, bit + 127>> \o ToBigEndian(n, 8)
    IN  IF isMasked THEN header \o key \o Masking(data, key) ELSE header \o data

\* a field a log entry does not have
Absent == JConst("absent")

\* a log entry the server writes, and the text that is no entry
Entry(ts, source, severity, message) ==
    [object |-> TRUE, timestamp |-> ts, source |-> source, severity |-> severity,
     message |-> message]
NoEntry ==
    [object |-> FALSE, timestamp |-> Absent, source |-> Absent, severity |-> Absent,
     message |-> Absent]

\* json.dumps of a field value: a string in quotes, null, a number
JsonValueText(v) ==
    CASE v.t = "str" -> <<34>> \o v.s \o <<34>>
      [] v.t = "None" -> Text(<<"n","u","l","l">>)
      [] OTHER -> v.s

\* json.dumps of an entry: the fields it has, in the order of the keys
EntryText(e) ==
    LET member(key, v) ==
            IF v = Absent THEN << >>
            ELSE << <<34>> \o key \o <<34, 58>> \o JsonValueText(v) >>
    IN  <<123>>
        \o JoinText(member(KeyTimestamp, e.timestamp) \o member(KeySource, e.source)
                    \o member(KeySeverity, e.severity) \o member(KeyMessage, e.message),
                    <<44>>)
        \o <<125>>

\* the entries tried: each field absent, empty, a plain string, a string
\* with a space at an end, null or a number
Entries ==
    { Entry(ts, source, severity, message) :
        ts \in { Absent, JStr(<< >>), JStr(Text(<<"t","1">>)), JStr(<<32>>),
                 JConst("None") },
        source \in { Absent, JStr(Text(<<"s","1">>)), JStr(Text(<<"s","1"," ">>)) },
        severity \in { Absent, JStr(Text(<<"I","N","F","O">>)) },
        message \in { Absent, JStr(Text(<<"m","1">>)), JInt(<<55>>) } }

\* the texts tried that are no JSON object: plain text, JSON of another
\* type, JSON that is cut or followed by more
RawTexts ==
    { Text(<<"p","l","a","i","n"," ","l","o","g"," ","l","i","n","e">>),
      Text(<<"[","]">>), Text(<<"7">>), Text(<<"n","u","l","l">>),
      <<34, 115, 34>>, Text(<<"{">>), Text(<<"{","}"," ","x">>),
      <<123, 34, 109, 34, 58>> }

\* what is known of the frame on the stream: who wrote it, what it was
\* built from, the bytes behind it, the headers read since
Probe(via, first, text, data, isMasked, key, trail, entry) ==
    [via |-> via, first |-> first, text |-> text, data |-> data, masked |-> isMasked,
     key |-> key, trail |-> trail, entry |-> entry, headers |-> 0]

\* the mask keys tried for a single frame
CodecKeys == MaskKeys \cup { <<255, 255, 255, 255>>, <<129, 0, 136, 126>> }

\* n times the letter a
Letters(n) == [i \in 1..n |-> 97] \o << >>

\* the texts _ws_send_text is given: up to 125 bytes, and at both ends of
\* each form of the length
SentTexts ==
    { << >>, <<0>>, <<97>>, <<233>>, Text(<<"a","b","c","d","e">>), Letters(125) }
SentLengths == {126, 127, 65535, 65536}

\* frames of _ws_send_text, handed back to _ws_recv_frame
ClientProbes ==
    { Probe("client", TextFirst, t, Utf8Encode(t), TRUE, key, << >>, NoEntry) :
        t \in SentTexts, key \in CodecKeys }
    \cup { Probe("client", TextFirst, Letters(n), Utf8Encode(Letters(n)), TRUE,
                 <<1, 2, 3, 4>>, << >>, NoEntry) : n \in SentLengths }

\* frames of the server, with the MASK bit clear or set, alone on the stream
\* or with a frame behind them
ServerPayloads == { << >>, <<97>>, <<1, 2, 3, 4>>, Utf8Encode(Text(<<"a","b","c","d","e">>)),
                    Letters(126) }
ServerProbes ==
    { Probe("server", first, << >>, data, FALSE, << >>, trail, NoEntry) :
        first \in {129, 130, 137}, data \in ServerPayloads,
        trail \in { << >>, FrameTextA } }
    \cup { Probe("server", first, << >>, data, TRUE, key, trail, NoEntry) :
        first \in {129, 130, 137}, data \in ServerPayloads,
        key \in CodecKeys, trail \in { << >>, FrameTextA } }

\* text frames of the server that carry a log entry or other text
LineProbes ==
    { Probe("line", 129, EntryText(e), Utf8Encode(EntryText(e)), FALSE, << >>, << >>, e) :
        e \in Entries }
    \cup { Probe("line", 129, t, Utf8Encode(t), FALSE, << >>, << >>, NoEntry) :
        t \in RawTexts }

\* the bytes on the stream
ProbeWire(p) ==
    IF p.via = "client" THEN WsSendText(p.text, p.key)
    ELSE ServerFrame(p.first, p.data, p.masked, p.key) \o p.trail

\* lines 351-358 are done: the upgrade was accepted, the empty term is
\* subscribed, the window is open, and the frame is on its way
FrameInit ==
    /\ AppInit /\ appExists /\ active = Dep(1)
    /\ PathIdle /\ ListIdle /\ ConcIdle /\ GetIdle
    /\ probe \in ClientProbes \cup ServerProbes \cup LineProbes
    /\ wire = ProbeWire(probe)
    /\ serverMode = "whole"
    /\ lpc = "header"
    /\ sock = "open"
    /\ term = << >>
    /\ resp = ResponseOk
    /\ surplus = << >>
    /\ opcode = 0
    /\ masked = FALSE
    /\ length = 0
    /\ mask = << >>
    /\ payload = << >>
    /\ lines = << >>
    /\ clock = 0
    /\ ldeadline = LogWindow
    /\ loutcome = "none"
    /\ lerror = "none"
    /\ lcarried = NoMessage
    /\ lresult = << >>
    /\ framesLeft = 0
    /\ httpWire = << >>
    /\ peerClosed = FALSE
    /\ sent = <<WsSendText(<< >>, <<0, 0, 0, 0>>)>>
    /\ sentPlain = <<Plain(TextFirst, << >>, <<0, 0, 0, 0>>)>>
    /\ eofAt = "none"
    /\ timeoutAt = "none"

\* _ws_recv_frame and what the loop does with the frame
FrameNext ==
    \/ WsRecvHeader
    \/ WsRecvLength
    \/ WsRecvMask
    \/ WsRecvPayload
    \/ LogDispatch

FrameSpec == FrameInit /\ [][FrameNext]_vars

(***************************************************************************)
(* _normalize_workspace_source_path on its own: called on a path, and      *)
(* called again on the path it returned                                    *)
(***************************************************************************)
\* the arguments tried: whitespace or none, a root, the rest of the path,
\* whitespace or none
PathLeads == { << >>, <<" ">> }
PathRoots ==
    { WorkspacePrefix, UsersPrefix, SharedPrefix, ReposPrefix, WorkspaceRoot,
      <<"/","t","m","p","/">>, << >> }
PathRests == { << >>, <<"a">>, <<"a"," ","b">> }
PathTrails == { << >>, <<" ">>, <<"\n">> }
PathInputs ==
    { lead \o root \o rest \o trail :
        lead \in PathLeads, root \in PathRoots, rest \in PathRests,
        trail \in PathTrails }

PathInit ==
    /\ AppInit /\ appExists /\ active = Dep(1)
    /\ LogIdle /\ ListIdle /\ ConcIdle /\ GetIdle
    /\ npc = "given"
    /\ givenPath \in PathInputs
    /\ normalizedPath = << >>
    /\ renormalizedPath = << >>

\* lines 180-190, on the argument
NormalizeCall ==
    /\ npc = "given"
    /\ npc' = "once"
    /\ normalizedPath' = NormalizePath(givenPath)
    /\ UNCHANGED <<givenPath, renormalizedPath>>
    /\ UNCHANGED <<cpVars, tracked, histVars, trueReturns, dVars, cVars, delVars,
                   logVars, listVars, concVars, getVars>>

\* lines 180-190, on the path returned
NormalizeAgain ==
    /\ npc = "once"
    /\ npc' = "twice"
    /\ renormalizedPath' = NormalizePath(normalizedPath)
    /\ UNCHANGED <<givenPath, normalizedPath>>
    /\ UNCHANGED <<cpVars, tracked, histVars, trueReturns, dVars, cVars, delVars,
                   logVars, listVars, concVars, getVars>>

PathNext == NormalizeCall \/ NormalizeAgain

PathSpec == PathInit /\ [][PathNext]_vars

(***************************************************************************)
(* list_apps and the listing branch of the get_app tool, on their own      *)
(***************************************************************************)
DefaultLimit == 20       \* limit: int = 20

UpperLetters ==
    <<"A","B","C","D","E","F","G","H","I","J","K","L","M",
      "N","O","P","Q","R","S","T","U","V","W","X","Y","Z">>
LowerLetters ==
    <<"a","b","c","d","e","f","g","h","i","j","k","l","m",
      "n","o","p","q","r","s","t","u","v","w","x","y","z">>

\* mutant: the comparison keeps the case
Lower_KeepsCase(s) == s

\* str.lower()
Lower(s) ==
    [k \in 1..Len(s) |->
        IF \E u \in 1..26 : UpperLetters[u] = s[k]
        THEN LowerLetters[CHOOSE u \in 1..26 : UpperLetters[u] = s[k]]
        ELSE s[k]]

\* sub in s
Contains(s, sub) ==
    \E k \in 1..(Len(s) - Len(sub) + 1) : SubSeq(s, k, k + Len(sub) - 1) = sub

\* an App of the SDK: its name (named is false for a name of None) and what
\* else it carries
App(name) == [name |-> name, named |-> TRUE, service_principal |-> "sp"]
Nameless == [name |-> << >>, named |-> FALSE, service_principal |-> "sp"]

\* getattr(app, "name", "") or ""
NameOrEmpty(app) == IF app.named THEN app.name ELSE << >>

\* _app_to_dict: the dict keeps the name of the app
AppToDict(app) == [name |-> app.name, named |-> app.named]

\* lines 88-97: the loop over the listing, results being the list so far
RECURSIVE ListApps(_, _, _, _)
ListApps(apps, name_contains, lim, sofar) ==
    IF apps = << >> THEN sofar
    ELSE IF /\ name_contains # << >>
            /\ ~Contains(Lower(NameOrEmpty(Head(apps))), Lower(name_contains))
         THEN ListApps(Tail(apps), name_contains, lim, sofar)
    ELSE LET more == Append(sofar, AppToDict(Head(apps)))
         IN  IF lim # 0 /\ Len(more) >= lim THEN more
             ELSE ListApps(Tail(apps), name_contains, lim, more)

\* the listings tried: up to two apps of a few names, and long listings of
\* distinct names of which two in three start with Ap
ShortApps == { App(<<"a","p","p">>), App(<<"M","y","A","P","P">>), App(<<"x">>), Nameless }
LongListing(n) ==
    [k \in 1..n |->
        App((IF k % 3 = 0 THEN <<"x">> ELSE <<"A","p">>)
            \o <<LowerLetters[((k - 1) % 26) + 1], LowerLetters[((k - 1) \div 26) + 1]>>)]
Listings ==
    { << >> } \cup { <<a>> : a \in ShortApps }
    \cup { <<a, b>> : a \in ShortApps, b \in ShortApps }
    \cup { LongListing(n) : n \in {19, 20, 21, 30, 31} }
Filters == { << >>, <<"a","p">>, <<"A","P">>, <<"p","p">>, <<"x">>, <<"z","z">> }
Limits == { 0, 1, 2, 20, 21 }

\* core list_apps(name_contains, limit)
ListAppsCall ==
    /\ listPc = "given"
    /\ listPc' = "listed"
    /\ results' = ListApps(listing, nameContains, limit, << >>)
    /\ UNCHANGED <<listing, nameContains, limit>>
    /\ UNCHANGED <<cpVars, tracked, histVars, trueReturns, dVars, cVars, delVars,
                   logVars, pathVars, concVars, getVars>>

\* tool get_app with no name, line 211: _list_apps(name_contains=name_contains),
\* the limit left at its default
GetAppListing ==
    /\ listPc = "given"
    /\ listPc' = "got"
    /\ results' = ListApps(listing, nameContains, DefaultLimit, << >>)
    /\ UNCHANGED <<listing, nameContains, limit>>
    /\ UNCHANGED <<cpVars, tracked, histVars, trueReturns, dVars, cVars, delVars,
                   logVars, pathVars, concVars, getVars>>

ListNext == ListAppsCall \/ GetAppListing

ListInit ==
    /\ AppInit /\ appExists /\ active = Dep(1)
    /\ LogIdle /\ PathIdle /\ ConcIdle /\ GetIdle
    /\ listPc = "given"
    /\ listing \in Listings
    /\ nameContains \in Filters
    /\ limit \in Limits
    /\ results = << >>

ListSpec == ListInit /\ [][ListNext]_vars

(***************************************************************************)
(* get_app_logs                                                            *)
(***************************************************************************)
\* the deployment_id arguments tried: None or "", and the id "d2"
GivenIds == { << >>, <<100, 50>> }

\* the text of a deployment id of the control plane: 1 is "d1"
IdText(id) == <<100, 48 + id>>

\* lines 239-241: what the get shows of the active deployment; idKnown
\* tells whether the deployment object carries a deployment_id
Shown(readOk, idKnown) ==
    IF ~readOk THEN "raised"
    ELSE IF active = NoDep THEN "inactive"
    ELSE IF ~idKnown THEN "noid"
    ELSE "active"

\* mutant: no error dict is returned, the session is opened in any case
LogsError_None(sh) == "none"

\* lines 240-245: the error dict returned in place of a session
LogsError(sh) ==
    CASE sh = "inactive" -> "No active deployment found"
      [] sh = "noid" -> "No deployment ID available"
      [] OTHER -> "none"

\* lines 235-247: settle the deployment id, return an error dict when there
\* is none, else open the log session with it
GetAppLogs ==
    /\ gpc = "idle"
    /\ lpc = "idle"
    /\ \E id \in GivenIds, readOk \in BOOLEAN, idKnown \in BOOLEAN :
        LET sh == IF id # << >> THEN "unread" ELSE Shown(readOk, idKnown)
            deployment_id == IF id # << >> THEN id
                             ELSE IF sh = "active" THEN IdText(active.deployment_id)
                             ELSE << >>
        IN  /\ readOk => appExists
            /\ givenId' = id
            /\ shown' = sh
            /\ IF sh = "raised"
               THEN /\ gpc' = "raised"
                    /\ gresult' = NoLogsResult
                    /\ UNCHANGED logVars
               ELSE IF LogsError(sh) # "none"
               THEN /\ gpc' = "returned"
                    /\ gresult' = LogsResult(LogsError(sh), << >>)
                    /\ UNCHANGED logVars
               ELSE /\ gpc' = "session"
                    /\ gresult' = NoLogsResult
                    /\ LogEnter(deployment_id)
    /\ UNCHANGED <<cpVars, tracked, histVars, trueReturns, dVars, cVars, delVars,
                   pathVars, listVars, concVars>>

\* lines 247-255: the session has ended; its text is returned with the id,
\* its exception goes on to the caller
GetAppLogsEnd ==
    /\ gpc = "session"
    /\ lpc = "done"
    /\ IF loutcome = "returned"
       THEN /\ gpc' = "returned"
            /\ gresult' = LogsResult("logs", term)
       ELSE /\ gpc' = "raised"
            /\ gresult' = NoLogsResult
    /\ UNCHANGED <<givenId, shown>>
    /\ UNCHANGED <<cpVars, tracked, histVars, trueReturns, dVars, cVars, delVars,
                   logVars, pathVars, listVars, concVars>>

\* one get_app_logs call and its log session
GetLogsNext ==
    \/ GetAppLogs
    \/ GetAppLogsEnd
    \/ LogConnect
    \/ LogTls
    \/ LogRequest
    \/ LogReadResponse
    \/ LogSubscribe
    \/ ServerSend
    \/ WsRecvHeader
    \/ WsRecvLength
    \/ WsRecvMask
    \/ WsRecvPayload
    \/ LogDispatch

GetLogsSpec == Init /\ [][GetLogsNext]_vars

(***************************************************************************)
(* Two calls on one app name at the same time: each call is a thread that  *)
(* runs create_or_update_app, and deploy_app inside it; a step is one      *)
(* request to the control plane with the local code that follows it.       *)
(* Locals that are not read again (the loop counter after the submit loop, *)
(* the clock after the return) are put back to their initial values.       *)
(***************************************************************************)
\* the paths the concurrent create_or_update_app calls are given
ConcPaths == { PathNone, PathWorkspace, PathRelative }

\* every variable but caller and the control plane
ConcFrame ==
    UNCHANGED <<histVars, trueReturns, dVars, cVars, delVars, logVars, pathVars,
                listVars, getVars>>

\* the call has ended: what it returned or raised, and of its locals those
\* that say what it did
Ended(c, pc, result, via, error) ==
    [IdleCaller EXCEPT !.op = c.op, !.pc = pc, !.existing = c.existing,
                       !.created = c.created, !.prev = c.prev,
                       !.captureRaised = c.captureRaised, !.own = c.own,
                       !.result = result, !.via = via, !.error = error]

\* tools/apps.py lines 101-119: strip, look up, validate
ConcCouCall(i) ==
    /\ caller[i].pc = "idle"
    /\ \E p \in ConcPaths, readOk \in BOOLEAN :
        LET path == Strip(p)
            found == FindAppByName(readOk)
            entered == [caller[i] EXCEPT !.op = "cou", !.existing = found]
        IN  /\ readOk => appExists
            /\ caller' = [caller EXCEPT ![i] =
                  IF MissingPath(found, path) \/ UnclearPath(path)
                  THEN Ended(entered, "raised", NoDep, "none", Err("ValueError", 0))
                  ELSE IF ~found THEN [entered EXCEPT !.pc = "create", !.path = path]
                  ELSE IF path # << >>
                  THEN [entered EXCEPT !.pc = "capture",
                                       !.created = ResultCreated(found),
                                       !.dpath = NormalizePath(path)]
                  ELSE Ended([entered EXCEPT !.created = ResultCreated(found)],
                             "returned", NoDep, "none", NoError)]
    /\ UNCHANGED <<cpVars, tracked>>
    /\ ConcFrame

\* tools/apps.py lines 121-143: the create request; the control plane
\* refuses a name that exists
ConcCreate(i) ==
    /\ caller[i].pc = "create"
    /\ \/ /\ ~appExists
          /\ appExists' = TRUE
          /\ \E trackOk \in BOOLEAN : tracked' = (trackOk \/ tracked)
          /\ LET made == [caller[i] EXCEPT
                             !.created = ResultCreated(caller[i].existing),
                             !.path = << >>]
             IN  caller' = [caller EXCEPT ![i] =
                    IF caller[i].path # << >>
                    THEN [made EXCEPT !.pc = "capture",
                                      !.dpath = NormalizePath(caller[i].path)]
                    ELSE Ended(made, "returned", NoDep, "none", NoError)]
       \/ /\ caller' = [caller EXCEPT ![i] =
                Ended(caller[i], "raised", NoDep, "none",
                      IF appExists THEN Err("AlreadyExists", 0)
                      ELSE Err("CreateError", 0))]
          /\ UNCHANGED <<appExists, tracked>>
    /\ UNCHANGED <<active, rolling, minted>>
    /\ ConcFrame

\* core lines 122-129
ConcCapture(i) ==
    /\ caller[i].pc = "capture"
    /\ \E readOk \in BOOLEAN :
        /\ readOk => appExists
        /\ caller' = [caller EXCEPT ![i] =
              [@ EXCEPT !.pc = "submit",
                        !.prev = CapturedPrevious(readOk, active),
                        !.captureRaised = ~readOk]]
    /\ UNCHANGED <<cpVars, tracked>>
    /\ ConcFrame

\* core lines 135-142: an attempt that succeeds creates a deployment
ConcSubmitOk(i) ==
    /\ caller[i].pc = "submit"
    /\ SubmitLoopOpen(caller[i].attempts)
    /\ appExists
    /\ minted' = minted + 1
    /\ rolling' = Dep(minted + 1)
    /\ \E r \in DeployResponses(minted + 1) :
        caller' = [caller EXCEPT ![i] =
            [@ EXCEPT !.pc = "check",
                      !.attempts = 0,
                      !.lastError = NoError,
                      !.dpath = << >>,
                      !.own = minted + 1,
                      !.response = r]]
    /\ UNCHANGED <<appExists, active, tracked>>
    /\ ConcFrame

\* core lines 143-149: an attempt that raises
ConcSubmitFail(i) ==
    /\ caller[i].pc = "submit"
    /\ SubmitLoopOpen(caller[i].attempts)
    /\ LET n == caller[i].attempts + 1
           e == NextLastError(caller[i].lastError, Err("deploy", n))
       IN  caller' = [caller EXCEPT ![i] =
              IF SubmitLoopOpen(n)
              THEN [@ EXCEPT !.attempts = n, !.lastError = e]
              ELSE Ended(caller[i], "raised", NoDep, "none", e)]
    /\ UNCHANGED <<cpVars, tracked>>
    /\ ConcFrame

\* core lines 151-164 and 177
ConcCheck(i) ==
    /\ caller[i].pc = "check"
    /\ \/ caller' = [caller EXCEPT ![i] =
              Ended(caller[i], "raised", NoDep, "none", Err("wait", 0))]
       \/ /\ NeedsPoll(caller[i].response.deployment_id, caller[i].prev)
          /\ caller' = [caller EXCEPT ![i] =
                [@ EXCEPT !.pc = "poll", !.deadline = caller[i].now + PollWindow]]
       \/ /\ ~NeedsPoll(caller[i].response.deployment_id, caller[i].prev)
          /\ caller' = [caller EXCEPT ![i] =
                Ended(caller[i], "returned", caller[i].response, "immediate",
                      NoError)]
    /\ UNCHANGED <<cpVars, tracked>>
    /\ ConcFrame

\* core lines 165-175: one iteration of the poll
ConcPollRead(i) ==
    /\ caller[i].pc = "poll"
    /\ PollOpen(caller[i].now, caller[i].deadline)
    /\ \E readOk \in BOOLEAN :
        /\ readOk => appExists
        /\ caller' = [caller EXCEPT ![i] =
              IF readOk /\ IsTransition(active.deployment_id, caller[i].prev)
              THEN Ended(caller[i], "returned", active, "transition", NoError)
              ELSE [@ EXCEPT !.now = @ + PollInterval]]
    /\ UNCHANGED <<cpVars, tracked>>
    /\ ConcFrame

\* core lines 165 and 177: the window is over
ConcPollTimeout(i) ==
    /\ caller[i].pc = "poll"
    /\ ~PollOpen(caller[i].now, caller[i].deadline)
    /\ caller' = [caller EXCEPT ![i] =
          Ended(caller[i], "returned", TimeoutResult(caller[i].response),
                "timeout", NoError)]
    /\ UNCHANGED <<cpVars, tracked>>
    /\ ConcFrame

ConcNext ==
    \/ \E i \in Callers : ConcCouCall(i)
    \/ \E i \in Callers : ConcCreate(i)
    \/ \E i \in Callers : ConcCapture(i)
    \/ \E i \in Callers : ConcSubmitOk(i)
    \/ \E i \in Callers : ConcSubmitFail(i)
    \/ \E i \in Callers : ConcCheck(i)
    \/ \E i \in Callers : ConcPollRead(i)
    \/ \E i \in Callers : ConcPollTimeout(i)
    \/ Rollout

ConcSpec == Init /\ [][ConcNext]_vars

\* every step of a running deploy_app call
DeployStep ==
    Capture \/ SubmitOk \/ SubmitFail \/ Check \/ PollRead \/ PollTimeout

\* a call that has been entered runs on: each control-plane call returns or
\* raises, each sleep ends
LiveSpec == Spec /\ WF_vars(DeployStep)

\* reads of the poll window that fit between its opening and its deadline
MaxPollReads == PollWindow \div PollInterval

(***************************************************************************)
(* Claims about deploy_app                                                 *)
(***************************************************************************)
NoTransitionShown == lastShown \in {ReadFailed, NoId, prev}

\* C1: when the deploy response carries the captured previous id, the call
\* returns before the end of the window only at a poll read that shows a
\* non-empty active id different from the previous id, and it returns at the
\* first such read: while it polls, and when the window ends, the latest
\* read showed the previous id, no id, or raised.
C1_ReturnsAtFirstTransitionRead ==
    (prev # NoId /\ response.deployment_id = prev) =>
        /\ (dpc = "returned" /\ dvia # "timeout") =>
              /\ dvia = "transition"
              /\ pollReads >= 1
              /\ ~NoTransitionShown
              /\ dresult.deployment_id = lastShown
        /\ (dpc = "poll" /\ pollReads >= 1) => NoTransitionShown
        /\ (dpc = "returned" /\ dvia = "timeout") => NoTransitionShown

\* C1 witness: previous id d1, poll reads d1, d1, d2: returned d2 at the
\* third read
C1_Witness ==
    /\ dpc = "returned"
    /\ dvia = "transition"
    /\ prev = 1
    /\ response.deployment_id = 1
    /\ pollReads = 3
    /\ quietRead /\ ~failedRead
    /\ dresult.deployment_id = 2

\* C2: a deployment reported as new (immediate return or observed
\* transition) never carries the id that was active on the app before the
\* call, unless the app had no active deployment then.
\* Violated: when the read of lines 123-129 raises, previous_deployment_id is
\* None although the app has an active deployment, and a deploy response that
\* still carries that deployment's id is returned at once.
C2_NeverReportsIdActiveBeforeCall ==
    (dpc = "returned" /\ dvia \in {"immediate", "transition"} /\ activeAtCall # NoId)
        => dresult.deployment_id # activeAtCall

\* C3: a call that polled and whose reads showed no transition ends by
\* returning the deploy response unchanged, raising nothing, after the whole
\* window; also when every read raised.
C3_TimeoutReturnsResponse ==
    (DeployDone /\ pollReads >= 1 /\ NoTransitionShown) =>
        /\ dpc = "returned"
        /\ derror = NoError
        /\ dresult = response
        /\ pollReads = MaxPollReads

\* C3 witness: every read of the window raised
C3_Witness ==
    /\ dpc = "returned"
    /\ pollReads = MaxPollReads
    /\ failedRead /\ ~quietRead
    /\ dresult = response
    /\ response.deployment_id = prev
    /\ prev # NoId

\* C4: the submit loop calls deploy at most 5 times, none after the attempt
\* that succeeded, and when all 5 raise the call raises the error of the
\* fifth attempt with no poll read made and no window opened.
C4_SubmitBounded ==
    /\ attempts <= DeployAttempts
    /\ okAt # 0 => attempts = okAt
    /\ (attempts = DeployAttempts /\ okAt = 0) =>
          /\ dpc = "raised"
          /\ derror = Err("deploy", DeployAttempts)
          /\ pollReads = 0
          /\ deadline = 0
    /\ (dpc = "raised" /\ derror.kind = "deploy") =>
          (attempts = DeployAttempts /\ okAt = 0)

\* C4 witness: five attempts raised on an app that exists
C4_Witness ==
    /\ appExists
    /\ dpc = "raised"
    /\ attempts = DeployAttempts
    /\ derror = Err("deploy", DeployAttempts)

\* C5: every call that was entered returns or raises, after at most 5
\* deploy submissions and at most 30 poll reads.
C5_Terminates ==
    /\ [](attempts <= DeployAttempts /\ pollReads <= MaxPollReads)
    /\ (~DeployIdle) ~> DeployDone

\* C5 witness: a call that ended after the longest run: four failed
\* submissions, then a whole window of reads
C5_Witness ==
    /\ dpc = "returned"
    /\ attempts = DeployAttempts
    /\ pollReads = MaxPollReads

(***************************************************************************)
(* Claims about create_or_update_app                                       *)
(***************************************************************************)
\* the path, read as given, starts with one of the four workspace roots
HasRootPrefix(path) ==
    \E pre \in {WorkspacePrefix, UsersPrefix, SharedPrefix, ReposPrefix} :
        StartsWith(path, pre)

IsValueError == cpc = "raised" /\ cerror = Err("ValueError", 0)

\* C6: a call whose lookup finds the app issues no create request and, when
\* it returns, returns created=False; with no source path it returns, issues
\* no deploy request either and leaves the control plane as it found it.
\* This holds of every call of a sequence.
C6_FoundIsNotRecreated ==
    (cpc # "idle" /\ existing) =>
        /\ callCreates = 0
        /\ createOks = oksAtCall
        /\ cpc = "returned" => ~created
        /\ cpath = << >> =>
              /\ cpc = "returned"
              /\ ~created
              /\ attempts = 0
              /\ <<appExists, minted>> = cpAtCall

\* C6 witness: the second of two calls with no source path on an app that
\* exists; both found it and returned created=False
C6_Witness ==
    /\ calls = 2
    /\ trueReturns = 0
    /\ deleteCalls = 0
    /\ ~absentAtStart
    /\ createReqs = 0
    /\ minted = active.deployment_id
    /\ cpc = "returned"
    /\ existing
    /\ craw = PathNone
    /\ ~created

\* C7 as stated: over calls for one name with no delete, starting with the
\* name absent: the call with a /Workspace/ path whose create and deploy
\* succeed returns created=True, every later call returns created=False, and
\* at most one create request is issued.
C7_OneCreateRequest ==
    (absentAtStart /\ deleteCalls = 0) =>
        /\ (cpc = "returned" /\ createOks > oksAtCall
               /\ StartsWith(cpath, WorkspacePrefix)) => created
        /\ (CouDone /\ oksAtCall > 0) => (cpc = "returned" /\ ~created)
        /\ createReqs <= 1

\* C7 amended: the call with a /Workspace/ path whose create and deploy
\* succeed returns created=True, every later call that returns returns
\* created=False, and at most one create request succeeds (so at most one
\* call returns created=True).
C7_OneCreateSucceeds ==
    (absentAtStart /\ deleteCalls = 0) =>
        /\ (cpc = "returned" /\ createOks > oksAtCall
               /\ StartsWith(cpath, WorkspacePrefix)) => created
        /\ (cpc = "returned" /\ oksAtCall > 0) => ~created
        /\ createOks <= 1
        /\ trueReturns <= 1

\* C7 witness: the first call created the app and returned created=True, the
\* second returned created=False
C7_Witness ==
    /\ absentAtStart
    /\ deleteCalls = 0
    /\ calls = 2
    /\ trueReturns = 1
    /\ createOks = 1
    /\ cpc = "returned"
    /\ oksAtCall = 1
    /\ ~created

\* C8 as stated: the call raises a validation error, having issued no create
\* and no deploy request, when (a) the app does not exist and no source path
\* is given, or (b) the source path given does not start with /Workspace/,
\* /Users/, /Shared/ or /Repos/.
C8_RejectsUnclearPathAsGiven ==
    (cpc # "idle" /\ (\/ ~existedAtCall /\ craw = << >>
                      \/ craw # << >> /\ ~HasRootPrefix(craw))) =>
        (IsValueError /\ callCreates = 0 /\ attempts = 0)

\* C8 amended: the same with the source path taken after surrounding
\* whitespace is stripped: (a) the app does not exist and the stripped path
\* is empty, or (b) the stripped path is not empty and does not start with
\* one of the four roots.
C8_RejectsUnclearStrippedPath ==
    (cpc # "idle" /\ (\/ ~existedAtCall /\ Strip(craw) = << >>
                      \/ Strip(craw) # << >> /\ ~HasRootPrefix(Strip(craw)))) =>
        (IsValueError /\ callCreates = 0 /\ attempts = 0)

\* C8 witness: a relative path on an app that exists is rejected
C8_Witness ==
    /\ IsValueError
    /\ existedAtCall
    /\ existing
    /\ craw = PathRelative
    /\ callCreates = 0
    /\ attempts = 0

(***************************************************************************)
(* Claims about the log fetch                                              *)
(***************************************************************************)
\* the log fetch has ended, by a return or by an exception
LogDone == lpc = "done"

\* C9: every execution of the log fetch that opened a connection ends with
\* the socket closed, whatever the way it ends: a return, the deadline, the
\* entry cap, a read timeout, a failed handshake, or an exception raised
\* during TLS setup, send or receive.
\* Violated: line 337 runs before the try block, so an exception raised
\* there before the TLS socket has taken the descriptor over leaves the
\* function with the connection of line 336 open.
C9_SocketClosedOnEveryExit ==
    (LogDone /\ sock # "none") => sock = "closed"

\* C10: a socket read that returns zero bytes at any point of a frame
\* (header, extended length, mask key, payload) ends the session as a benign
\* end of stream: the call raises nothing and returns.
\* Violated: b"" from the read of the extended length makes struct.unpack
\* raise struct.error, which the loop does not catch.
C10_ZeroByteReadIsBenign ==
    (LogDone /\ eofAt # "none") => loutcome = "returned"

FrameRead == lpc = "frame" /\ ~(masked /\ mask # << >> /\ MaskIndexError(payload, mask))

\* the payload _ws_recv_frame returns for the frame read
ReturnedPayload == IF masked /\ mask # << >> THEN Masking(payload, mask) ELSE payload

ClaimedValue(v) == IF v.t \in {"str", "int"} THEN v.s ELSE << >>

\* the line of the statement for the frame the server wrote
ClaimedLine(p) ==
    IF ~p.entry.object THEN p.text
    ELSE LET parts == SelectSeq(<<ClaimedValue(p.entry.timestamp),
                                  ClaimedValue(p.entry.source),
                                  ClaimedValue(p.entry.severity)>>,
                                LAMBDA x : x # << >>)
             message == ClaimedValue(p.entry.message)
         IN  IF parts = << >> THEN message
             ELSE JoinText(parts, <<32>>) \o <<58, 32>> \o message

\* C13: a text frame that is neither blank nor the sentinel adds exactly one
\* line: for a JSON object the non-empty values of timestamp, source and
\* severity joined by single spaces, then ": ", then the message, or the
\* message alone when all three are empty; for any other text the text
C13_LineIsPrefixAndMessage ==
    [][ (lpc = "frame" /\ probe.via = "line")
            => lines' = Append(lines, ClaimedLine(probe)) ]_vars
(***************************************************************************)
(* C14: the bounds of the receive loop                                     *)
(***************************************************************************)
\* a step that calls _ws_recv_frame: the loop is entered, or gone round
FrameReadStarts == lpc # "header" /\ lpc' = "header"

\* C14: the lines never number more than 500, and a frame read starts only
\* with fewer than 500 lines and before the deadline
C14_LoopBounded ==
    [][ /\ Len(lines') <= MaxEntries
        /\ FrameReadStarts => (Len(lines') < MaxEntries /\ clock' < ldeadline') ]_vars

\* the burst endpoint fills the 500 lines before the deadline and the call
\* returns them
C14_Witness ==
    /\ LogDone /\ loutcome = "returned"
    /\ Len(lines) = MaxEntries
    /\ clock < ldeadline
    /\ eofAt = "none" /\ timeoutAt = "none"
(***************************************************************************)
(* C15: a refused upgrade                                                  *)
(***************************************************************************)
\* C15: when the status line is no 101 response the call raises an error
\* that carries the status line and the body read so far (the bytes read
\* behind the header block), no frame has been sent, the socket is closed
C15_RefusalCarriesStatusAndBody ==
    (LogDone /\ lerror = "RuntimeError") =>
        /\ loutcome = "raised"
        /\ lcarried = [status |-> StatusLine(resp), body |-> surplus]
        /\ sent = << >>
        /\ sock = "closed"
(***************************************************************************)
(* C16: _ws_send_text and _ws_recv_frame, one after the other              *)
(***************************************************************************)
\* C16: of the bytes _ws_send_text writes for a text of at most 125 bytes,
\* under any key, _ws_recv_frame returns opcode 1 and the bytes of the
\* text; it reads that one frame, whole, and raises nothing
C16_RoundTrip ==
    (probe.via = "client" /\ Len(probe.data) <= 125) =>
        /\ lpc = "frame" =>
              /\ FrameRead
              /\ probe.headers = 1
              /\ opcode = OpText
              /\ Unmasked(payload, masked, mask) = probe.data
              /\ wire = << >>
        /\ lpc = "done" =>
              /\ loutcome = "returned"
              /\ probe.headers = 1

\* 125 bytes under a key that changes them on their way
C16_Witness ==
    /\ FrameRead
    /\ probe.via = "client"
    /\ probe.key = <<129, 0, 136, 126>>
    /\ Len(probe.data) = 125
    /\ payload # probe.data
    /\ opcode = OpText
    /\ Unmasked(payload, masked, mask) = probe.data
(***************************************************************************)
(* C17: the three forms of the length                                      *)
(***************************************************************************)
\* C17: in the bytes _ws_send_text writes for a payload of L bytes, the low
\* seven bits of byte 2 are L up to 125; 126 from 126 to 65535, with L in
\* the next two bytes, high byte first; 127 from 65536 on, with L in the
\* next eight bytes, high byte first; and _ws_recv_frame reads L back
C17_LengthForms ==
    probe.via = "client" =>
        LET L == Len(probe.data)
            w == WsSendText(probe.text, probe.key)
            field == w[2] % 128
        IN  /\ L <= 125 => (field = L /\ Len(w) = 2 + 4 + L)
            /\ (126 <= L /\ L <= 65535) =>
                  /\ field = 126
                  /\ w[3] = L \div 256 /\ w[4] = L % 256
                  /\ Len(w) = 4 + 4 + L
            /\ L >= 65536 =>
                  /\ field = 127
                  /\ \A i \in 3..6 : w[i] = 0
                  /\ w[7] = (L \div 16777216) % 256 /\ w[8] = (L \div 65536) % 256
                  /\ w[9] = (L \div 256) % 256 /\ w[10] = L % 256
                  /\ Len(w) = 10 + 4 + L
            /\ lpc = "frame" => (FrameRead /\ probe.headers = 1 /\ length = L
                                  /\ Len(payload) = L)
            /\ lpc = "done" => (loutcome = "returned" /\ probe.headers = 1)

\* 126 bytes, the first length of the 16-bit form, read back
C17_Witness ==
    /\ FrameRead
    /\ probe.via = "client"
    /\ Len(probe.data) = 126
    /\ length = 126
    /\ Len(payload) = 126
(***************************************************************************)
(* C18: the frames the client writes                                       *)
(***************************************************************************)
\* the bytes of a frame before its key: the header and the extended length
KeyOffset(frame) ==
    IF frame[2] % 128 < 126 THEN 2 ELSE IF frame[2] % 128 = 126 THEN 4 ELSE 10

\* C18: every frame handed to sendall, the subscribe frame and each pong,
\* has the MASK bit set in byte 2, then (behind the length) the four bytes
\* of its key, then each payload byte XORed with the key byte at its index
\* modulo 4
C18_ClientFramesMasked ==
    \A n \in 1..Len(sent) :
        LET frame == sent[n]
            plain == sentPlain[n]
            at == KeyOffset(frame)
        IN  /\ plain.first \in {TextFirst, PongFirst}
            /\ frame[1] = plain.first
            /\ frame[2] >= 128
            /\ Len(plain.key) = 4
            /\ Len(frame) = at + 4 + Len(plain.data)
            /\ \A k \in 1..4 : frame[at + k] = plain.key[k]
            /\ \A i \in 0..(Len(plain.data) - 1) :
                    frame[at + 4 + i + 1] = Xor(plain.data[i + 1], plain.key[(i % 4) + 1])

\* the subscribe frame for the term d1 and a pong for the ping p, both
\* under the key 1 2 3 4
C18_Witness ==
    /\ Len(sent) = 2
    /\ sentPlain[1] = Plain(TextFirst, <<100, 49>>, <<1, 2, 3, 4>>)
    /\ sentPlain[2] = Plain(PongFirst, <<112>>, <<1, 2, 3, 4>>)
    /\ sent[1] = <<129, 130, 1, 2, 3, 4, 101, 51>>
    /\ sent[2] = <<138, 129, 1, 2, 3, 4, 113>>
(***************************************************************************)
(* C19: the MASK bit of a frame received                                   *)
(***************************************************************************)
\* C19: of a frame of the server _ws_recv_frame returns the opcode and,
\* when the MASK bit is set, the payload bytes XORed with the four bytes
\* that follow the length; when it is clear, the payload bytes as they
\* are, having read no key: the bytes behind the frame are still on the
\* stream
C19_UnmaskByMaskBit ==
    probe.via = "server" =>
        /\ (lpc = "frame" /\ probe.headers = 1) =>
              LET returned == Unmasked(payload, masked, mask)
              IN  /\ FrameRead
                  /\ opcode = probe.first % 16
                  /\ masked = probe.masked
                  /\ wire = probe.trail
                  /\ returned = probe.data
                  /\ IF probe.masked
                     THEN /\ mask = probe.key
                          /\ Len(returned) = Len(payload)
                          /\ \A i \in 0..(Len(payload) - 1) :
                                returned[i + 1] = Xor(payload[i + 1], probe.key[(i % 4) + 1])
                     ELSE /\ mask = << >>
                          /\ returned = payload
        /\ lpc = "done" => (probe.headers >= 1 /\ lerror \in {"none", "OSError"})

\* a frame with the bit clear whose payload could pass for a key, and a
\* frame behind it: the payload is returned, the second frame is untouched
C19_Witness ==
    /\ FrameRead
    /\ probe.via = "server" /\ probe.headers = 1
    /\ ~probe.masked /\ ~masked
    /\ probe.data = <<1, 2, 3, 4>>
    /\ payload = <<1, 2, 3, 4>>
    /\ mask = << >>
    /\ probe.trail = FrameTextA
    /\ wire = FrameTextA
(***************************************************************************)
(* C20: _normalize_workspace_source_path                                   *)
(***************************************************************************)
IsShortcut(path) ==
    \/ StartsWith(path, UsersPrefix)
    \/ StartsWith(path, SharedPrefix)
    \/ StartsWith(path, ReposPrefix)

\* C20 as stated: an argument that starts with /Users/, /Shared/ or /Repos/
\* is returned with /Workspace put before it, one that starts with
\* /Workspace/ is returned as it is, and what is returned is returned as it
\* is when given again
C20_PrefixesGivenPath ==
    npc \in {"once", "twice"} =>
        /\ IsShortcut(givenPath) => normalizedPath = WorkspaceRoot \o givenPath
        /\ StartsWith(givenPath, WorkspacePrefix) => normalizedPath = givenPath
        /\ npc = "twice" => renormalizedPath = normalizedPath

\* C20, amended: the same of the argument without the whitespace at its
\* ends
C20_PrefixesStrippedPath ==
    npc \in {"once", "twice"} =>
        /\ IsShortcut(Strip(givenPath)) =>
                normalizedPath = WorkspaceRoot \o Strip(givenPath)
        /\ StartsWith(Strip(givenPath), WorkspacePrefix) =>
                normalizedPath = Strip(givenPath)
        /\ npc = "twice" => renormalizedPath = normalizedPath

\* " /Users/a " is returned as /Workspace/Users/a, and that as itself
C20_Witness ==
    /\ npc = "twice"
    /\ givenPath = <<" ">> \o UsersPrefix \o <<"a", " ">>
    /\ normalizedPath = WorkspaceRoot \o UsersPrefix \o <<"a">>
    /\ renormalizedPath = normalizedPath

(***************************************************************************)
(* Claims about delete_app and the listing                                 *)
(***************************************************************************)
\* a step that is a delete_app call
DeleteStep == deleteCalls' = deleteCalls + 1

\* C22: a delete_app call removes the tracking entry of the name only when
\* the control-plane delete succeeded; when the control-plane delete raises
\* (always so for an app that does not exist) the call raises and leaves the
\* tracking entry and the control plane as they were.
C22_TrackingRemovedOnlyAfterDelete ==
    [][DeleteStep =>
          /\ delOutcome' \in {"deleted", "raised"}
          /\ ~appExists => delOutcome' = "raised"
          /\ delOutcome' = "raised" =>
                (tracked' = tracked /\ appExists' = appExists)
          /\ delOutcome' = "deleted" =>
                (appExists /\ ~appExists' /\ tracked' \in {FALSE, tracked})
          /\ tracked' # tracked => (delOutcome' = "deleted" /\ ~tracked')]_vars

\* C22 witness: the delete of a tracked name whose app is gone (a first
\* delete removed the app and failed to remove the entry) raised, the entry
\* is still there
C22_Witness ==
    /\ deleteCalls = 2
    /\ delOutcome = "raised"
    /\ ~appExists
    /\ trackedAtDelete
    /\ tracked

(***************************************************************************)
(* Claims about the return of deploy_app                                   *)
(***************************************************************************)
\* the deploy response carries a non-empty id that is not the captured one
ResponseIsNew == response.deployment_id \notin {NoId, prev}

\* the call returned the deploy response at line 177 with no poll window
\* opened: no poll read, no poll wait
ReturnedAtOnce ==
    /\ dpc = "returned"
    /\ dvia = "immediate"
    /\ dresult = response
    /\ pollReads = 0
    /\ now = 0
    /\ deadline = 0

\* unwrapping the Wait of lines 152-153 raised: there is no response dict
WaitRaised == dpc = "raised" /\ derror = Err("wait", 0) /\ pollReads = 0

\* C23: once the deploy call has answered with a non-empty id different from
\* the captured previous id (or with any non-empty id when none was
\* captured), the call returns that response with no poll read and no poll
\* wait made (unless unwrapping the answer raised).
C23_NewResponseReturnedAtOnce ==
    (okAt # 0 /\ ResponseIsNew /\ dpc # "check") => (ReturnedAtOnce \/ WaitRaised)

\* C23 witness: previous id d1, the response carries d2, returned at once
C23_Witness ==
    /\ ReturnedAtOnce
    /\ ~captureRaised
    /\ prev = 1
    /\ response.deployment_id = 2

\* C24: a poll read that raises neither ends the call nor reaches the
\* caller: the call goes on polling after the 2s wait, it times out only
\* when the deadline has passed and all reads of the window were made, and
\* it returns the deployment of a later read that shows a transition.
C24_FailedReadIsRetried ==
    failedRead =>
        /\ dpc \in {"poll", "returned"}
        /\ derror = NoError
        /\ dpc = "poll" => (now = pollReads * PollInterval /\ NoTransitionShown)
        /\ (dpc = "returned" /\ dvia = "timeout") =>
              (now >= deadline /\ pollReads = MaxPollReads)
        /\ (dpc = "returned" /\ dvia # "timeout") =>
              /\ dvia = "transition"
              /\ ~NoTransitionShown
              /\ dresult.deployment_id = lastShown

\* C24 witness: the first read raised, the second showed d2 and was returned
C24_Witness ==
    /\ dpc = "returned"
    /\ dvia = "transition"
    /\ failedRead /\ ~quietRead
    /\ pollReads = 2
    /\ prev = 1
    /\ dresult.deployment_id = 2

\* C27: a returned result whose id is empty or equal to the captured
\* previous id is a return at the end of the whole 60s window, every read of
\* which showed no transition; every other return carries a non-empty id
\* different from the captured previous id.
C27_StaleOnlyAfterWindow ==
    dpc = "returned" =>
        /\ dresult.deployment_id \in {NoId, prev} =>
              /\ dvia = "timeout"
              /\ now >= PollWindow
              /\ pollReads = MaxPollReads
              /\ NoTransitionShown
        /\ dvia # "timeout" => dresult.deployment_id \notin {NoId, prev}

\* C27 witness: the response has no id, no read of the window shows a
\* transition, the response is returned at the deadline
C27_Witness ==
    /\ dpc = "returned"
    /\ dvia = "timeout"
    /\ dresult = NoDep
    /\ quietRead
    /\ now = PollWindow

\* C28: when the capture read raises the call goes on to the submit loop
\* with no previous id, and a deploy response with any non-empty id is
\* returned at once, with no poll read (unless unwrapping the answer raised).
C28_FailedCaptureMeansNoPrevious ==
    captureRaised =>
        /\ prev = NoId
        /\ dpc \in {"submit", "check", "poll", "returned", "raised"}
        /\ dpc = "raised" =>
              \/ WaitRaised
              \/ (derror = Err("deploy", DeployAttempts) /\ attempts = DeployAttempts)
        /\ (okAt # 0 /\ response.deployment_id # NoId /\ dpc # "check") =>
              (ReturnedAtOnce \/ WaitRaised)

\* C28 witness: the app's active deployment is d1, the capture read raised,
\* the response carries d1 and is returned at once
C28_Witness ==
    /\ captureRaised
    /\ activeAtCall = 1
    /\ response.deployment_id = 1
    /\ ReturnedAtOnce

(***************************************************************************)
(* Claims about the failures inside create_or_update_app                   *)
(***************************************************************************)
\* C29: a lookup that raised counts as "no such app", and a call that takes
\* the app for absent and was given a path starting with one of the four
\* roots issues a create request, also when the app exists.
C29_FailedLookupMeansAbsent ==
    cpc # "idle" =>
        /\ lookupRaised => ~existing
        /\ (~existing /\ HasRootPrefix(cpath)) =>
              \/ cpc = "create" /\ callCreates = 0
              \/ cpc # "create" /\ callCreates = 1

\* C29 witness: the lookup of an app that exists raised, the create request
\* was issued and refused
C29_Witness ==
    /\ lookupRaised
    /\ existedAtCall
    /\ appExists
    /\ callCreates = 1
    /\ cpc = "raised"
    /\ cerror = Err("AlreadyExists", 0)

\* the call created the app and then raised an error of the deploy request
FailedAfterCreate ==
    /\ cpc = "raised"
    /\ createOks > oksAtCall
    /\ cerror.kind = "deploy"

\* the call comes after one that raised the error of the fifth deploy
\* attempt, on an app created by a call before, with no delete made
AfterFailedDeploy ==
    /\ cpc # "idle"
    /\ deployFailedBefore
    /\ oksAtCall > 0
    /\ deleteCalls = 0

\* C30 as stated: when the create succeeds and the deploy exhausts its 5
\* attempts the call raises the deploy error, the app stays on the control
\* plane and tracked, and a later call for the name returns created=False.
C30_AppStaysTracked ==
    /\ FailedAfterCreate => (appExists /\ tracked /\ attempts = DeployAttempts)
    /\ (AfterFailedDeploy /\ CouDone) => (cpc = "returned" /\ ~created)

\* C30 amended: the call raises the deploy error and undoes nothing: the app
\* stays on the control plane and the deploy leaves the tracking entry as
\* the best-effort step after the create left it; a later call for the name
\* finds the app there and, when it returns, returns created=False.
C30_CreateIsNotUndone ==
    /\ [](FailedAfterCreate =>
            /\ cerror = Err("deploy", DeployAttempts)
            /\ attempts = DeployAttempts /\ okAt = 0 /\ pollReads = 0
            /\ appExists)
    /\ [][cpc = "deploy" => (appExists' = appExists /\ tracked' = tracked)]_vars
    /\ [](AfterFailedDeploy =>
            (existedAtCall /\ appExists /\ (cpc = "returned" => ~created)))

\* C30 witness: the first call created and tracked the app and raised the
\* fifth deploy error; the second call returned created=False
C30_Witness ==
    /\ AfterFailedDeploy
    /\ absentAtStart
    /\ calls = 2
    /\ createOks = 1
    /\ tracked
    /\ cpc = "returned"
    /\ ~created

(***************************************************************************)
(* Claims about the listing                                                *)
(***************************************************************************)
\* the two characters are one letter, in either case, or the same character
SameLetter(a, b) ==
    a = b \/ \E u \in 1..26 : {a, b} = {UpperLetters[u], LowerLetters[u]}

\* sub occurs in s, the case of the letters left aside
ContainsIgnoringCase(s, sub) ==
    \E k \in 1..(Len(s) - Len(sub) + 1) :
        \A j \in 1..Len(sub) : SameLetter(s[k + j - 1], sub[j])

\* the apps of the listing whose name contains the filter, in listing order
Matching ==
    LET IsMatch(app) == ContainsIgnoringCase(NameOrEmpty(app), nameContains)
    IN  SelectSeq(listing, IsMatch)

\* the dicts of the first n of the matching apps
FirstMatches(n) ==
    [k \in 1..Min(n, Len(Matching)) |->
        [name |-> Matching[k].name, named |-> Matching[k].named]]

\* C21: get_app with no name returns the apps of the listing whose name
\* contains the filter, letter case aside, in listing order, cut to the
\* first 20; list_apps with limit 0 returns every such app (and with a
\* positive limit the first limit of them).
C21_ListFilteredInOrderCapped ==
    /\ listPc = "got" => results = FirstMatches(DefaultLimit)
    /\ (listPc = "listed" /\ limit = 0) => results = FirstMatches(Len(Matching))
    /\ (listPc = "listed" /\ limit > 0) => results = FirstMatches(limit)

\* C21 witness: a listing of 31 apps, 21 of them matching the filter AP in
\* another case; get_app returned the first 20
C21_Witness ==
    /\ listPc = "got"
    /\ Len(listing) = 31
    /\ nameContains = <<"A","P">>
    /\ Len(Matching) = 21
    /\ Len(results) = DefaultLimit
    /\ results[DefaultLimit].name = Matching[DefaultLimit].name

(***************************************************************************)
(* Claims about calls that run at the same time                            *)
(***************************************************************************)
\* the call has returned or raised
HasEnded(i) == caller[i].pc \in {"returned", "raised"}

\* C25: the deployment a call returns after a poll read showed a transition
\* is the one its own deploy request created, also while another call
\* deploys to the same app (stated for calls whose capture read succeeded).
\* Violated: the poll returns whatever deployment is active and differs
\* from the captured id (lines 170-171), which is the other call's
\* deployment when that one was rolled out.
C25_ReturnsOwnDeployment ==
    \A i \in Callers :
        (/\ caller[i].pc = "returned"
         /\ caller[i].via = "transition"
         /\ ~caller[i].captureRaised) =>
            caller[i].result.deployment_id = caller[i].own

\* the call was given a path that passed the validation
ValidPath(i) == caller[i].error.kind # "ValueError"

\* the calls that have returned created=True
ReturnedCreated == { i \in Callers : caller[i].pc = "returned" /\ caller[i].created }

\* C26 as stated: of two calls on a name absent at the start at most one
\* returns created=True, and the other returns created=False or raises the
\* create error of the control plane.
C26_OtherFalseOrCreateError ==
    absentAtStart =>
        /\ Cardinality(ReturnedCreated) <= 1
        /\ \A i \in Callers, j \in ReturnedCreated :
              (i # j /\ HasEnded(i) /\ ValidPath(i)) =>
                  \/ caller[i].pc = "returned" /\ ~caller[i].created
                  \/ /\ caller[i].pc = "raised"
                     /\ caller[i].error.kind \in {"AlreadyExists", "CreateError"}

\* C26 amended: at most one create request succeeds and at most one call
\* returns created=True; a call that took the app for absent and did not
\* create it raises the create error; a call that found the app returns
\* created=False when it returns, and may instead raise an error of its
\* deploy.
C26_AtMostOneCreated ==
    absentAtStart =>
        /\ Cardinality({ i \in Callers : caller[i].created }) <= 1
        /\ Cardinality(ReturnedCreated) <= 1
        /\ \A i \in Callers :
              (HasEnded(i) /\ ValidPath(i)) =>
                  /\ caller[i].existing => ~caller[i].created
                  /\ (~caller[i].existing /\ ~caller[i].created) =>
                        /\ caller[i].pc = "raised"
                        /\ caller[i].error.kind \in {"AlreadyExists", "CreateError"}
                  /\ (caller[i].pc = "raised" /\ (caller[i].existing \/ caller[i].created)) =>
                        caller[i].error.kind \in {"deploy", "wait"}

\* C26 witness: both lookups found no app; one call created it and returned
\* created=True, the create request of the other was refused
C26_Witness ==
    /\ absentAtStart
    /\ caller[1].pc = "returned"
    /\ caller[1].created
    /\ ~caller[2].existing
    /\ caller[2].pc = "raised"
    /\ caller[2].error = Err("AlreadyExists", 0)

(***************************************************************************)
(* C31: the subscribe frame                                                *)
(***************************************************************************)
\* the payload a frame of the client carries, unmasked with the key that
\* the frame itself carries behind its length
SentPayload(frame) ==
    LET at == KeyOffset(frame)
    IN  Masking(SubSeq(frame, at + 5, Len(frame)), SubSeq(frame, at + 1, at + 4))

\* the session is in _ws_recv_frame or acts on the frame it returned
InReceiveLoop == lpc \in {"header", "extlen", "mask", "payload", "frame"}

\* C31: after a 101 response the session sends exactly one text frame,
\* which carries the search term (the deployment id or the empty string),
\* before it reads any frame, and no other text frame for the rest of the
\* call: a text frame is sent only as the first frame and only behind a
\* status line with 101; whenever a frame is being read, a read of a frame
\* has ended the stream or timed out, or the call has returned, that frame
\* has been sent; every later frame is a pong.
C31_OneSubscribeFrame ==
    /\ \A n \in 1..Len(sent) : (sent[n][1] = TextFirst) <=> (n = 1)
    /\ sent # << >> =>
          /\ StatusSwitching(resp)
          /\ SentPayload(sent[1]) = Utf8Encode(term)
    /\ (InReceiveLoop \/ eofAt # "none" \/ timeoutAt # "none"
        \/ loutcome = "returned" \/ lines # << >>) => Len(sent) >= 1
    /\ lpc \in {"idle", "connect", "tls", "request", "response", "subscribe"}
          => sent = << >>

\* C31 witness: the term d1 was subscribed, a ping was answered and a line
\* received; the only text frame sent is the first one
C31_Witness ==
    /\ LogDone /\ loutcome = "returned"
    /\ term = <<100, 49>>
    /\ Len(sent) = 2
    /\ sent[1][1] = TextFirst /\ SentPayload(sent[1]) = <<100, 49>>
    /\ sent[2][1] = PongFirst
    /\ Len(lines) = 1

(***************************************************************************)
(* C32: bytes read behind the header block of the response                 *)
(***************************************************************************)
\* C32: bytes that arrive behind the header terminator in the same read as
\* the 101 response are retained and decoded as the start of the first
\* frame: when the text frame "a" came in whole with the response and the
\* call returns, its first line is "a", and whenever the receive loop reads
\* from the stream the frame bytes read so far have all gone through
\* _ws_recv_frame.
\* Violated: the bytes stay in response (line 345), of which only the status
\* line is used (line 346); _ws_recv_frame reads from the socket alone.
C32_BytesBehindResponseDecoded ==
    /\ (LogDone /\ loutcome = "returned" /\ surplus = FrameTextA) =>
          (lines # << >> /\ lines[1] = <<97>>)
    /\ InReceiveLoop => surplus = << >>

(***************************************************************************)
(* C33: the answer to a ping                                               *)
(***************************************************************************)
\* the frame sent last
LastSent == sent'[Len(sent')]

\* C33: for every ping frame received the session writes exactly one pong
\* (first byte 0x8A, MASK bit set) whose unmasked payload equals the
\* payload of the ping, appends no line and goes back to the top of the
\* receive loop, where the deadline decides; unless sendall raises, which
\* ends the call with nothing sent.
C33_PingAnsweredByOnePong ==
    [][ (FrameRead /\ opcode = OpPing) =>
          \/ /\ Len(sent') = Len(sent) + 1
             /\ SubSeq(sent', 1, Len(sent)) = sent
             /\ LastSent[1] = PongFirst
             /\ LastSent[2] >= MaskBit
             /\ SentPayload(LastSent) = ReturnedPayload
             /\ Len(LastSent) = KeyOffset(LastSent) + 4 + Len(ReturnedPayload)
             /\ lines' = lines
             /\ wire' = wire
             /\ IF clock < ldeadline
                THEN lpc' = "header" /\ loutcome' = "none"
                ELSE lpc' = "done" /\ loutcome' = "returned"
          \/ /\ sent' = sent
             /\ lines' = lines
             /\ lpc' = "done" /\ loutcome' = "raised" /\ lerror' = "OSError" ]_vars

\* C33 witness: a masked ping with the payload abcde was answered by one
\* pong with that payload, no line was added, the next frame is being read
C33_Witness ==
    /\ lpc = "header"
    /\ probe.first = 137 /\ probe.masked /\ probe.headers = 1
    /\ probe.data = <<97, 98, 99, 100, 101>>
    /\ Len(sent) = 2
    /\ sent[2][1] = PongFirst
    /\ SentPayload(sent[2]) = <<97, 98, 99, 100, 101>>
    /\ lines = << >>

(***************************************************************************)
(* C34, C35: frames that are neither text nor ping                         *)
(***************************************************************************)
\* the step is back at the loop test of line 358 with the lines as they
\* were: the next frame is read while the window is open, else the call
\* returns
BackAtLoopTest ==
    /\ lines' = lines
    /\ IF clock < ldeadline /\ Len(lines) < MaxEntries
       THEN lpc' = "header" /\ loutcome' = "none"
       ELSE lpc' = "done" /\ loutcome' = "returned"

\* the step leaves the loop and returns the lines gathered
LeavesLoop ==
    /\ lpc' = "done"
    /\ loutcome' = "returned"
    /\ lines' = lines
    /\ lresult' = StripText(JoinLines(lines))

\* C34: a close frame (opcode 0x8) ends the receive loop; a pong (0xA) and
\* every opcode other than text, close and ping is skipped: no line is
\* appended, nothing is sent, no byte is read, and the loop goes on with the
\* next frame.
C34_CloseEndsOthersSkipped ==
    [][ /\ (FrameRead /\ opcode = OpClose) =>
              (LeavesLoop /\ sent' = sent /\ wire' = wire /\ clock' = clock)
        /\ (FrameRead /\ opcode \notin {OpText, OpClose, OpPing}) =>
              (BackAtLoopTest /\ sent' = sent /\ wire' = wire /\ clock' = clock)
      ]_vars

\* C34 witness: a binary frame was skipped with the window still open:
\* nothing but the subscribe frame was sent, no line exists and the next
\* frame is being read
C34_Witness ==
    /\ lpc = "header"
    /\ opcode = 2 /\ payload = <<97>>
    /\ framesLeft = 0 /\ wire = << >> /\ surplus = << >>
    /\ Len(sent) = 1
    /\ lines = << >>
    /\ clock < ldeadline

\* a control frame other than a ping has been returned by _ws_recv_frame
OtherControlRead == FrameRead /\ opcode >= OpClose /\ opcode # OpPing

\* C35 as stated: apart from ping, every control frame the session receives
\* (close, and any other control opcode such as pong 0xA) stops the receive
\* loop.
C35_ControlFramesStopLoop ==
    [][ OtherControlRead => LeavesLoop ]_vars

\* C35 amended: of the control frames other than ping, close (0x8) stops
\* the receive loop; a pong (0xA) and any other control opcode does not:
\* the session goes back to the loop test and, with the window open, reads
\* the next frame.
C35_OnlyCloseStopsLoop ==
    [][ OtherControlRead =>
          IF opcode = OpClose THEN LeavesLoop
          ELSE BackAtLoopTest /\ sent' = sent ]_vars

\* C35 witness: a pong was received with the window open, and the session
\* reads the next frame
C35_Witness ==
    /\ lpc = "header"
    /\ opcode = PongFirst % 16 /\ payload = << >>
    /\ loutcome = "none"
    /\ Len(sent) = 1
    /\ clock < ldeadline

(***************************************************************************)
(* C36: reads that return a part of what was asked for                     *)
(***************************************************************************)
\* C36: the frame _ws_recv_frame returns does not depend on how the bytes
\* of the frame are split across successive non-empty reads: as long as no
\* read returned zero bytes or timed out, neither the header nor the
\* extended length nor the key makes the call raise, and the frame returned
\* has its key of four bytes and its payload of exactly length bytes.
\* Violated: only the payload is read in a loop (lines 293-297); a header
\* read that returns one byte raises IndexError at line 281, an extended
\* length that comes in parts raises struct.error at lines 287-289, and a
\* key that comes in parts is used as it is at line 300.
C36_SplitReadsSameFrame ==
    (eofAt = "none" /\ timeoutAt = "none") =>
        /\ lerror \notin {"IndexError", "struct.error"}
        /\ lpc = "frame" =>
              /\ Len(payload) = length
              /\ masked => Len(mask) = 4

(***************************************************************************)
(* C37: the path of the deploy requests of create_or_update_app            *)
(***************************************************************************)
\* C37: every deploy request that create_or_update_app submits to the
\* control plane carries a source path that starts with /Workspace/: while
\* the call is in deploy_app, and after every request made, the path of the
\* requests is the normalised form of the stripped argument and has that
\* prefix.
C37_DeployPathUnderWorkspace ==
    /\ (cpc = "deploy" \/ (cpc # "idle" /\ attempts > 0)) =>
          /\ StartsWith(dpath, WorkspacePrefix)
          /\ dpath = NormalizePath(Strip(craw))
    /\ [][ attempts' > attempts =>
              (cpc = "deploy" /\ StartsWith(dpath, WorkspacePrefix)) ]_vars

\* C37 witness: the argument was " /Users/a " and a deploy request has been
\* made with /Workspace/Users/a
C37_Witness ==
    /\ cpc = "deploy"
    /\ craw = PathPadded
    /\ attempts >= 1
    /\ dpath = WorkspaceRoot \o PathUsers

(***************************************************************************)
(* C38: a frame of the server with the MASK bit set                        *)
(***************************************************************************)
\* C38: a frame received from the server that carries the MASK bit is
\* treated as a protocol violation and is not accepted as log data: the
\* step that acts on such a frame adds no line and answers nothing.
\* Violated: lines 299-300 unmask the payload and the loop acts on the
\* frame as on any other; a masked text frame adds its line.
C38_MaskedServerFrameRejected ==
    [][ (lpc = "frame" /\ masked) => (lines' = lines /\ sent' = sent) ]_vars

(***************************************************************************)
(* C39: a frame cut short by the end of the stream                         *)
(***************************************************************************)
\* C39: a text frame whose payload is cut short because the connection
\* closes before length bytes arrived contributes no line to the output:
\* the step that acts on a frame with fewer payload bytes than its length
\* leaves the lines as they are (in sessions where no frame byte came with
\* the response).
\* Violated: the payload loop leaves on b"" (lines 295-296) and line 301
\* returns the opcode with the bytes read so far; the loop renders them.
C39_CutFrameAddsNoLine ==
    [][ (lpc = "frame" /\ surplus = << >> /\ Len(payload) < length) =>
            lines' = lines ]_vars

(***************************************************************************)
(* C40: get_app_logs without a deployment id                               *)
(***************************************************************************)
\* C40: get_app_logs called without a deployment id for an app that has no
\* active deployment returns the error value No active deployment found
\* instead of raising, and opens no connection; a log session is opened
\* only once a deployment id is known: the term of every session is an id
\* that is not empty, the one given or else the id of the active
\* deployment, and the logs are returned with it.
C40_NoSessionWithoutId ==
    /\ (gpc # "idle" /\ givenId = << >> /\ shown = "inactive") =>
          /\ gpc = "returned"
          /\ gresult = LogsResult("No active deployment found", << >>)
          /\ lpc = "idle" /\ sock = "none" /\ sent = << >>
    /\ (gpc # "idle" /\ shown \in {"noid", "raised"}) =>
          /\ gpc = IF shown = "noid" THEN "returned" ELSE "raised"
          /\ lpc = "idle" /\ sock = "none"
    /\ lpc # "idle" =>
          /\ term # << >>
          /\ term = IF givenId # << >> THEN givenId ELSE IdText(active.deployment_id)
          /\ shown = IF givenId # << >> THEN "unread" ELSE "active"
    /\ gresult.kind = "logs" =>
          /\ gresult.deployment_id = term
          /\ loutcome = "returned"

\* C40 witness: the app exists and has no active deployment, no id was
\* given: the error value is returned, nothing was connected
C40_Witness ==
    /\ gpc = "returned"
    /\ appExists /\ active = NoDep
    /\ givenId = << >>
    /\ shown = "inactive"
    /\ gresult.kind = "No active deployment found"
    /\ sock = "none"

====
